---- MODULE Spec2Model ----
(***************************************************************************)
(* The offline cache manager of sw.js: the fetch listener, handleRequest   *)
(* and the three strategy handlers, over the Cache Storage of the origin.  *)
(*                                                                         *)
(* A URL is a sequence of tokens (scheme, host labels, "/", names,         *)
(* extensions), so that startsWith, endsWith and the extension patterns    *)
(* are computed on the string and not assumed.  Every await of the source  *)
(* is a suspension point: a handler is a small program counter, and fetch  *)
(* events interleave between the awaits.  cache.put is not awaited by the  *)
(* source, so a write completes in a step of its own, after the handler    *)
(* has gone on.  caches.open and cache.match are taken to succeed; a       *)
(* network fetch may fail, and a cache.put may fail.                       *)
(***************************************************************************)
EXTENDS Integers, Sequences, FiniteSets, TLC

\* ------------------------------------------------------------------ bounds
\* Fetch events delivered in one behaviour; their handling may overlap.
MaxEvents == 2
\* Distinct bodies the server may serve for one URL over time.
NumVersions == 2

\* --------------------------------------------------------------- constants
CACHE_NAME == "mainstream-tinting-v1.2"
OFFLINE_PAGE == <<"/", "offline", ".html">>
IndexHtml == <<"/", "index", ".html">>
CACHE_STRATEGY ==
    [CACHE_FIRST |-> "cache-first",
     NETWORK_FIRST |-> "network-first",
     STALE_WHILE_REVALIDATE |-> "stale-while-revalidate"]

\* self.location.origin
LocationOrigin == <<"https://", "tinting.test">>

\* ------------------------------------------------------------------ values
\* What a promise of the handlers can resolve to: a Response or undefined.
Undefined == [kind |-> "undefined", status |-> 0, ctype |-> "", body |-> ""]
Response(status, ctype, body) ==
    [kind |-> "response", status |-> status, ctype |-> ctype, body |-> body]
OfflineNotice == Response(200, "text/html", "Offline - Please check your connection")
NetworkError == Response(408, "text/plain", "Network error")

\* JavaScript truthiness of the values that occur: undefined is falsy, every
\* object (a Response, a Promise) is truthy.
Truthy(v) == v.kind # "undefined"

\* The responses a network fetch can resolve to.
ServerResponses ==
    {Response(200, "served", ToString(b)) : b \in 1..NumVersions}
    \cup {Response(404, "served", "not found")}

\* ------------------------------------------------------------------- URLs
StartsWith(s, p) == Len(s) >= Len(p) /\ SubSeq(s, 1, Len(p)) = p
EndsWith(s, p) == Len(s) >= Len(p) /\ SubSeq(s, Len(s) - Len(p) + 1, Len(s)) = p

\* new URL(url).pathname: from the first "/" after the authority, without the query.
PathStart(url) == CHOOSE i \in 1..Len(url) : url[i] = "/" /\ \A j \in 1..(i - 1) : url[j] # "/"
IsQuery(tok) == tok \in {"?v=1"}
PathEnd(url) ==
    IF \E i \in 1..Len(url) : IsQuery(url[i])
    THEN (CHOOSE i \in 1..Len(url) : IsQuery(url[i])) - 1
    ELSE Len(url)
\* Mutant: the query string is left on the path.
Pathname_KeepsQuery(url) == SubSeq(url, PathStart(url), Len(url))
Pathname(url) == SubSeq(url, PathStart(url), PathEnd(url))
\* new URL(url).origin
OriginOf(url) == SubSeq(url, 1, PathStart(url) - 1)

\* A URL string given to cache.match is resolved against the worker's location.
Resolve(path) == LocationOrigin \o path

RootUrl == Resolve(<<"/">>)
IndexUrl == Resolve(IndexHtml)
OfflineUrl == Resolve(OFFLINE_PAGE)
StyleUrl == Resolve(<<"/", "style", ".css">>)
\* A foreign origin whose host name extends the app's host name.
LookalikeUrl == <<"https://", "tinting.test", ".evil.example", "/", "style", ".css">>
ForeignUrl == <<"https://", "fonts.example", "/", "font", ".woff2">>

Request(method, url, mode) == [method |-> method, url |-> url, mode |-> mode]
NoRequest == Request("", <<>>, "")

\* The fetch events the browser delivers: documents and subresources of the
\* site, the offline page as a document, and requests the listener is to skip.
Requests ==
    {Request("GET", u, m) : u \in {RootUrl, IndexUrl, StyleUrl},
                            m \in {"navigate", "no-cors"}}
    \cup {Request("GET", OfflineUrl, "navigate"),
          Request("GET", LookalikeUrl, "no-cors"),
          Request("GET", ForeignUrl, "no-cors"),
          Request("POST", IndexUrl, "navigate")}

\* Step 1 of the fetch listener: only same-origin reads are answered.
Intercepted(r) == r.method = "GET" /\ StartsWith(r.url, LocationOrigin)

\* Step 2 of the fetch listener: the strategy, from the path of the URL.
\* /\.(css|js|woff2?|ttf)$/ and the like: the path ends in one of the extensions.
MatchesExtension(path, exts) == Len(path) > 0 /\ path[Len(path)] \in exts
\* Mutant: the root path is taken for a document.
Classify_RootIsDocument(path) ==
    IF EndsWith(path, <<".html">>) \/ path = <<"/">> THEN CACHE_STRATEGY.NETWORK_FIRST
    ELSE IF MatchesExtension(path, {".css", ".js", ".woff", ".woff2", ".ttf"})
    THEN CACHE_STRATEGY.CACHE_FIRST
    ELSE IF MatchesExtension(path, {".jpg", ".jpeg", ".png", ".gif", ".webp", ".svg", ".ico", ".mp4"})
    THEN CACHE_STRATEGY.CACHE_FIRST
    ELSE CACHE_STRATEGY.STALE_WHILE_REVALIDATE
Classify(path) ==
    IF EndsWith(path, <<".html">>) THEN CACHE_STRATEGY.NETWORK_FIRST
    ELSE IF MatchesExtension(path, {".css", ".js", ".woff", ".woff2", ".ttf"})
    THEN CACHE_STRATEGY.CACHE_FIRST
    ELSE IF MatchesExtension(path, {".jpg", ".jpeg", ".png", ".gif", ".webp", ".svg", ".ico", ".mp4"})
    THEN CACHE_STRATEGY.CACHE_FIRST
    ELSE CACHE_STRATEGY.STALE_WHILE_REVALIDATE

\* ------------------------------------------------------------ cache storage
\* const CACHE_FILES = [ ... ]: the files cached on install.
CACHE_FILES ==
    {<<"/">>, IndexHtml,
     <<"/", "residential", ".html">>, <<"/", "commercial", ".html">>,
     <<"/", "gallery", ".html">>, <<"/", "technology", ".html">>,
     <<"/", "about", ".html">>, <<"/", "areas-we-serve", ".html">>,
     <<"/", "removal", ".html">>,
     <<"/", "style", ".css">>, <<"/", "main", ".js">>,
     <<"/", "m-logo-new", ".webp">>, <<"/", "m-logo-new", ".png">>,
     <<"/", "favicon-96x96", ".png">>, <<"/", "favicon", ".svg">>,
     <<"/", "favicon", ".ico">>, <<"/", "site", ".webmanifest">>,
     <<"/", "robots", ".txt">>}

\* A bucket maps the keys stored in it to their responses.
EmptyBucket == [k \in {} |-> Undefined]

\* caches.open(name): the bucket is created when absent.
CachesOpen(store, name) ==
    [n \in (DOMAIN store) \cup {name} |-> IF n \in DOMAIN store THEN store[n] ELSE EmptyBucket]
\* cache.match(key): the entry, or undefined.
CacheMatch(store, name, key) ==
    IF key \in DOMAIN store[name] THEN store[name][key] ELSE Undefined
\* Mutant: a write under a key the bucket holds already is dropped.
CachePut_KeepsExisting(store, name, key, resp) ==
    IF key \in DOMAIN store[name] THEN store
    ELSE [store EXCEPT ![name] =
             [k \in (DOMAIN store[name]) \cup {key} |-> IF k = key THEN resp ELSE store[name][k]]]
\* Mutant: the write drops the other entries of the bucket.
CachePut_ReplacesBucket(store, name, key, resp) ==
    [store EXCEPT ![name] = [k \in {key} |-> resp]]
\* the effect of a completed cache.put(key, response)
CachePut(store, name, key, resp) ==
    [store EXCEPT ![name] =
        [k \in (DOMAIN store[name]) \cup {key} |-> IF k = key THEN resp ELSE store[name][k]]]

\* Cache Storage before any install, and after a successful install of this
\* version: cache.addAll(CACHE_FILES) stored the manifest's URLs.
NoCaches == [n \in {} |-> EmptyBucket]
Installed ==
    [n \in {CACHE_NAME} |->
        [k \in {Resolve(f) : f \in CACHE_FILES} |-> Response(200, "served", ToString(1))]]

\* ------------------------------------------------------------------- state
Events == 1..MaxEvents

VARIABLES
    caches,    \* Cache Storage: bucket name -> (key -> Response or undefined)
    pc,        \* per fetch event: where its handler is suspended
    req,       \* per fetch event: event.request
    strategy,  \* per fetch event: the strategy given to handleRequest
    net,       \* per fetch event: its fetch(request): state (none, pending, resolved, failed) and response
    put,       \* per fetch event: its cache.put: state (none, pending, stored, failed) and response
    result,    \* per fetch event: what the promise given to respondWith resolved to
    prior,     \* history: per fetch event, the events for the same URL answered before it arrived
    lifecycle, \* this version's worker: its state, its install and activate handlers' positions
    pushed,         \* history: the data of the push events received, in order
    notifications,  \* the notifications shown by the push listener, in order
    windows,        \* the URLs given to clients.openWindow, in order
    cachedElements, \* Utils._cachedElements: the selectors of the Map, in insertion order
    lastUsed,       \* history: the selectors of the Map, least recently looked up first
    page            \* the page script's contact form: the component's fields (contactForm),
                    \* the invocations of submitForm suspended at an await (submissions),
                    \* its setTimeout callbacks that have not run yet (timers), and, as
                    \* history, the number of events the user has caused (clicks)

\* The state the fetch and lifecycle listeners never touch: the push and
\* notificationclick listeners' and the page script's.
outside == <<pushed, notifications, windows, cachedElements, lastUsed, page>>
\* The state of the fetch and lifecycle listeners.
inside == <<caches, pc, req, strategy, net, put, result, prior, lifecycle>>

vars == <<inside, outside>>

\* Alpine.data("contactForm", ...): the initial fields.
ContactFormData ==
    [uploadedFiles |-> <<>>,
     isSubmitting |-> FALSE,
     _submissionLock |-> FALSE,
     _submissionAttempts |-> 0,
     _lastSubmissionTime |-> 0,
     _submissionId |-> <<>>,
     _retryCount |-> 0]

OutsideInit ==
    /\ page = [contactForm |-> ContactFormData, submissions |-> <<>>, timers |-> <<>>, clicks |-> 0]
    /\ pushed = <<>>
    /\ notifications = <<>>
    /\ windows = <<>>
    /\ cachedElements = <<>>
    /\ lastUsed = <<>>

\* The worker of this version.  worker is ServiceWorker.state; install and
\* activate are the positions of the two lifecycle handlers' promise chains;
\* waitUntil is what the promise given to the install event's waitUntil settled
\* to; skipWaiting and claimed record the calls of self.skipWaiting() and
\* self.clients.claim(); cacheNames is what caches.keys() resolved to and
\* deleting holds the names whose caches.delete is pending.
Parsed ==
    [worker |-> "parsed", install |-> "none", waitUntil |-> "pending", skipWaiting |-> FALSE,
     activate |-> "none", cacheNames |-> {}, deleting |-> {}, claimed |-> FALSE]
\* The worker in control of the pages, its install chain having ended in `install`.
Activated(install) ==
    [worker |-> "activated", install |-> install, waitUntil |-> "fulfilled",
     skipWaiting |-> (install = "precached"),
     activate |-> "claimed", cacheNames |-> {CACHE_NAME}, deleting |-> {}, claimed |-> TRUE]

NoPut == [state |-> "none", resp |-> Undefined]
NoFetch == [state |-> "none", resp |-> Undefined]
\* fetch(request) was called and has not settled
FetchStarted == [state |-> "pending", resp |-> Undefined]
FetchResolved(response) == [state |-> "resolved", resp |-> response]
FetchRejected == [state |-> "failed", resp |-> Undefined]

Init ==
    /\ caches \in {NoCaches, Installed}
    /\ pc = [h \in Events |-> "idle"]
    /\ req = [h \in Events |-> NoRequest]
    /\ strategy = [h \in Events |-> ""]
    /\ net = [h \in Events |-> NoFetch]
    /\ put = [h \in Events |-> NoPut]
    /\ result = [h \in Events |-> Undefined]
    /\ prior = [h \in Events |-> {}]
    /\ lifecycle = Activated(IF caches = Installed THEN "precached" ELSE "failed")
    /\ OutsideInit

\* ------------------------------------------------------- shared code paths
\* Mutant: the status is not looked at, every response is written.
PutIfOk_AnyStatus(resp) == [state |-> "pending", resp |-> resp]

\* if (response.status === 200) { cache.put(request, response.clone()); }
PutIfOk(resp) == IF resp.status = 200 THEN [state |-> "pending", resp |-> resp] ELSE NoPut

\* A promise of cache.match(key), as a value of a JavaScript expression.
MatchPromise(key) == [kind |-> "promise", key |-> key]
\* a || b
OrElse(a, b) == IF Truthy(a) THEN a ELSE b
\* cache.match(OFFLINE_PAGE) || cache.match('/index.html') || new Response(...)
NavigationFallback ==
    OrElse(MatchPromise(Resolve(OFFLINE_PAGE)),
           OrElse(MatchPromise(Resolve(IndexHtml)), OfflineNotice))
\* What an async function that returns v resolves to: a promise is adopted.
Settle(v, store) == IF v.kind = "promise" THEN CacheMatch(store, CACHE_NAME, v.key) ELSE v

\* Mutant: every request gets the navigation branch.
FailurePath_AlwaysNavigation(h) ==
    /\ pc' = [pc EXCEPT ![h] = "fallback"]
    /\ UNCHANGED result

\* The catch block of the three handlers.
\* Navigation: the handler returns NavigationFallback and is suspended until it settles.
FailurePath(h) ==
    IF req[h].mode = "navigate"
    THEN /\ pc' = [pc EXCEPT ![h] = "fallback"]
         /\ UNCHANGED result
    ELSE /\ pc' = [pc EXCEPT ![h] = "done"]
         /\ result' = [result EXCEPT ![h] = NetworkError]

\* ----------------------------------------------------------------- actions
\* Mutant: the method of the request is not looked at.
FetchEvent_IgnoresMethod(h, r) ==
    /\ pc[h] = "idle"
    /\ \A g \in Events : g < h => pc[g] # "idle"
    /\ req' = [req EXCEPT ![h] = r]
    /\ prior' = [prior EXCEPT ![h] = {g \in Events : pc[g] = "done" /\ req[g].url = r.url}]
    /\ IF ~StartsWith(r.url, LocationOrigin)
       THEN /\ pc' = [pc EXCEPT ![h] = "passthrough"]
            /\ UNCHANGED strategy
       ELSE /\ strategy' = [strategy EXCEPT ![h] = Classify(Pathname(r.url))]
            /\ pc' = [pc EXCEPT ![h] = "open"]
    /\ UNCHANGED <<caches, net, put, result, lifecycle, outside>>

\* self.addEventListener('fetch', ...): the h-th fetch event of the behaviour
\* carries request r.  prior is a history variable, read by no action: it
\* records which handlings of the same URL had returned when the event arrived.
FetchEvent(h, r) ==
    /\ pc[h] = "idle"
    /\ \A g \in Events : g < h => pc[g] # "idle"
    /\ req' = [req EXCEPT ![h] = r]
    /\ prior' = [prior EXCEPT ![h] = {g \in Events : pc[g] = "done" /\ req[g].url = r.url}]
    /\ IF r.method # "GET"
       THEN /\ pc' = [pc EXCEPT ![h] = "passthrough"]
            /\ UNCHANGED strategy
       ELSE IF ~StartsWith(r.url, LocationOrigin)
       THEN /\ pc' = [pc EXCEPT ![h] = "passthrough"]
            /\ UNCHANGED strategy
       ELSE /\ strategy' = [strategy EXCEPT ![h] = Classify(Pathname(r.url))]
            /\ pc' = [pc EXCEPT ![h] = "open"]
    /\ UNCHANGED <<caches, net, put, result, lifecycle, outside>>

\* Mutant: the bucket of another version is opened.
handleRequest_OpensOther(h) ==
    /\ pc[h] = "open"
    /\ caches' = CachesOpen(caches, "mainstream-tinting-v1.1")
    /\ IF strategy[h] = CACHE_STRATEGY.CACHE_FIRST
       THEN /\ pc' = [pc EXCEPT ![h] = "cf_match"]
            /\ UNCHANGED net
       ELSE IF strategy[h] = CACHE_STRATEGY.NETWORK_FIRST
       THEN /\ pc' = [pc EXCEPT ![h] = "nf_fetch"]
            /\ net' = [net EXCEPT ![h] = FetchStarted]
       ELSE /\ pc' = [pc EXCEPT ![h] = "swr_match"]
            /\ UNCHANGED net
    /\ UNCHANGED <<req, strategy, put, result, prior, lifecycle, outside>>

\* handleRequest after `await caches.open(CACHE_NAME)`: the switch, and the
\* chosen handler up to its first await.
handleRequest(h) ==
    /\ pc[h] = "open"
    /\ caches' = CachesOpen(caches, CACHE_NAME)
    /\ IF strategy[h] = CACHE_STRATEGY.CACHE_FIRST
       THEN /\ pc' = [pc EXCEPT ![h] = "cf_match"]
            /\ UNCHANGED net
       ELSE IF strategy[h] = CACHE_STRATEGY.NETWORK_FIRST
       THEN /\ pc' = [pc EXCEPT ![h] = "nf_fetch"]
            /\ net' = [net EXCEPT ![h] = FetchStarted]
       ELSE /\ pc' = [pc EXCEPT ![h] = "swr_match"]
            /\ UNCHANGED net
    /\ UNCHANGED <<req, strategy, put, result, prior, lifecycle, outside>>

\* Mutant: the cached entry is ignored and the network is always asked.
handleCacheFirst_AlwaysFetches(h) ==
    /\ pc[h] = "cf_match"
    /\ net' = [net EXCEPT ![h] = FetchStarted]
    /\ pc' = [pc EXCEPT ![h] = "cf_fetch"]
    /\ UNCHANGED <<caches, req, strategy, put, result, prior, lifecycle, outside>>

\* Mutant: a cached entry is returned, and refreshed from the network as well.
handleCacheFirst_Revalidates(h) ==
    /\ pc[h] = "cf_match"
    /\ net' = [net EXCEPT ![h] = FetchStarted]
    /\ LET cached == CacheMatch(caches, CACHE_NAME, req[h].url) IN
       IF Truthy(cached)
       THEN /\ result' = [result EXCEPT ![h] = cached]
            /\ pc' = [pc EXCEPT ![h] = "done"]
       ELSE /\ pc' = [pc EXCEPT ![h] = "cf_fetch"]
            /\ UNCHANGED result
    /\ UNCHANGED <<caches, req, strategy, put, prior, lifecycle, outside>>

\* handleCacheFirst after `await cache.match(request)`
handleCacheFirst(h) ==
    /\ pc[h] = "cf_match"
    /\ LET cached == CacheMatch(caches, CACHE_NAME, req[h].url) IN
       IF Truthy(cached)
       THEN /\ result' = [result EXCEPT ![h] = cached]
            /\ pc' = [pc EXCEPT ![h] = "done"]
            /\ UNCHANGED net
       ELSE /\ net' = [net EXCEPT ![h] = FetchStarted]
            /\ pc' = [pc EXCEPT ![h] = "cf_fetch"]
            /\ UNCHANGED result
    /\ UNCHANGED <<caches, req, strategy, put, prior, lifecycle, outside>>

\* handleCacheFirst after `await fetch(request)` resolved
CacheFirstFetched(h, response) ==
    /\ pc[h] = "cf_fetch"
    /\ net[h].state = "pending"
    /\ net' = [net EXCEPT ![h] = FetchResolved(response)]
    /\ put' = [put EXCEPT ![h] = PutIfOk(response)]
    /\ result' = [result EXCEPT ![h] = response]
    /\ pc' = [pc EXCEPT ![h] = "done"]
    /\ UNCHANGED <<caches, req, strategy, prior, lifecycle, outside>>

\* handleCacheFirst after `await fetch(request)` rejected
CacheFirstFetchFailed(h) ==
    /\ pc[h] = "cf_fetch"
    /\ net[h].state = "pending"
    /\ net' = [net EXCEPT ![h] = FetchRejected]
    /\ FailurePath(h)
    /\ UNCHANGED <<caches, req, strategy, put, prior, lifecycle, outside>>

\* Mutant: the cached copy, when there is one, is returned instead of the
\* network response.
handleNetworkFirst_PrefersCache(h, response) ==
    /\ pc[h] = "nf_fetch"
    /\ net[h].state = "pending"
    /\ net' = [net EXCEPT ![h] = FetchResolved(response)]
    /\ put' = [put EXCEPT ![h] = PutIfOk(response)]
    /\ result' = [result EXCEPT ![h] =
                    IF Truthy(CacheMatch(caches, CACHE_NAME, req[h].url))
                    THEN CacheMatch(caches, CACHE_NAME, req[h].url)
                    ELSE response]
    /\ pc' = [pc EXCEPT ![h] = "done"]
    /\ UNCHANGED <<caches, req, strategy, prior, lifecycle, outside>>

\* Mutant: a response that is not 200 is replaced by the cached entry.
handleNetworkFirst_CacheOnError(h, response) ==
    /\ pc[h] = "nf_fetch"
    /\ net[h].state = "pending"
    /\ net' = [net EXCEPT ![h] = FetchResolved(response)]
    /\ put' = [put EXCEPT ![h] = PutIfOk(response)]
    /\ result' = [result EXCEPT ![h] =
                    IF response.status # 200 /\ Truthy(CacheMatch(caches, CACHE_NAME, req[h].url))
                    THEN CacheMatch(caches, CACHE_NAME, req[h].url)
                    ELSE response]
    /\ pc' = [pc EXCEPT ![h] = "done"]
    /\ UNCHANGED <<caches, req, strategy, prior, lifecycle, outside>>

\* handleNetworkFirst after `await fetch(request)` resolved
handleNetworkFirst(h, response) ==
    /\ pc[h] = "nf_fetch"
    /\ net[h].state = "pending"
    /\ net' = [net EXCEPT ![h] = FetchResolved(response)]
    /\ put' = [put EXCEPT ![h] = PutIfOk(response)]
    /\ result' = [result EXCEPT ![h] = response]
    /\ pc' = [pc EXCEPT ![h] = "done"]
    /\ UNCHANGED <<caches, req, strategy, prior, lifecycle, outside>>

\* Mutant: the catch block goes to the failure path without the lookup.
NetworkFirstFetchFailed_SkipsCache(h) ==
    /\ pc[h] = "nf_fetch"
    /\ net[h].state = "pending"
    /\ net' = [net EXCEPT ![h] = FetchRejected]
    /\ FailurePath(h)
    /\ UNCHANGED <<caches, req, strategy, put, prior, lifecycle, outside>>

\* handleNetworkFirst after `await fetch(request)` rejected: the catch block
\* up to `await cache.match(request)`
NetworkFirstFetchFailed(h) ==
    /\ pc[h] = "nf_fetch"
    /\ net[h].state = "pending"
    /\ net' = [net EXCEPT ![h] = FetchRejected]
    /\ pc' = [pc EXCEPT ![h] = "nf_match"]
    /\ UNCHANGED <<caches, req, strategy, put, result, prior, lifecycle, outside>>

\* Mutant: the catch block does not use the cached entry.
NetworkFirstMatched_IgnoresCache(h) ==
    /\ pc[h] = "nf_match"
    /\ FailurePath(h)
    /\ UNCHANGED <<caches, req, strategy, net, put, prior, lifecycle, outside>>

\* Mutant: without a cached entry the catch block fetches again.
NetworkFirstMatched_Retries(h) ==
    /\ pc[h] = "nf_match"
    /\ LET cached == CacheMatch(caches, CACHE_NAME, req[h].url) IN
       IF Truthy(cached)
       THEN /\ result' = [result EXCEPT ![h] = cached]
            /\ pc' = [pc EXCEPT ![h] = "done"]
            /\ UNCHANGED net
       ELSE /\ net' = [net EXCEPT ![h] = FetchStarted]
            /\ pc' = [pc EXCEPT ![h] = "nf_fetch"]
            /\ UNCHANGED result
    /\ UNCHANGED <<caches, req, strategy, put, prior, lifecycle, outside>>

\* handleNetworkFirst, catch block, after `await cache.match(request)`
NetworkFirstMatched(h) ==
    /\ pc[h] = "nf_match"
    /\ LET cached == CacheMatch(caches, CACHE_NAME, req[h].url) IN
       IF Truthy(cached)
       THEN /\ result' = [result EXCEPT ![h] = cached]
            /\ pc' = [pc EXCEPT ![h] = "done"]
       ELSE FailurePath(h)
    /\ UNCHANGED <<caches, req, strategy, net, put, prior, lifecycle, outside>>

\* The promise returned by the navigation branch of a catch block settles.
NavigationFallbackSettled(h) ==
    /\ pc[h] = "fallback"
    /\ result' = [result EXCEPT ![h] = Settle(NavigationFallback, caches)]
    /\ pc' = [pc EXCEPT ![h] = "done"]
    /\ UNCHANGED <<caches, req, strategy, net, put, prior, lifecycle, outside>>

\* A settled promise.
Fulfilled(v) == [settled |-> "fulfilled", value |-> v]
Rejected == [settled |-> "rejected", value |-> Undefined]
\* fetchPromise = fetch(request).then(response => { ...; return response; }).catch(() => {})
\* from the outcome of fetch(request): the catch callback returns nothing, so a
\* rejection becomes a fulfilment with undefined.
FetchPromise(outcome) ==
    IF outcome.settled = "rejected" THEN Fulfilled(Undefined) ELSE outcome

\* `try { return await fetchPromise; } catch (error) { ... }` of
\* handleStaleWhileRevalidate, reached only when nothing was cached.
AwaitFetchPromise(h, promise) ==
    IF promise.settled = "rejected"
    THEN FailurePath(h)
    ELSE /\ result' = [result EXCEPT ![h] = promise.value]
         /\ pc' = [pc EXCEPT ![h] = "done"]

\* Mutant: the handler waits for fetchPromise even when an entry was cached.
handleStaleWhileRevalidate_AwaitsFetch(h) ==
    /\ pc[h] = "swr_match"
    /\ net' = [net EXCEPT ![h] = FetchStarted]
    /\ pc' = [pc EXCEPT ![h] = "swr_wait"]
    /\ UNCHANGED <<caches, req, strategy, put, result, prior, lifecycle, outside>>

\* handleStaleWhileRevalidate after `await cache.match(request)`: the fetch is
\* started, and the cached entry, if any, is returned at once.
handleStaleWhileRevalidate(h) ==
    /\ pc[h] = "swr_match"
    /\ net' = [net EXCEPT ![h] = FetchStarted]
    /\ LET cached == CacheMatch(caches, CACHE_NAME, req[h].url) IN
       IF Truthy(cached)
       THEN /\ result' = [result EXCEPT ![h] = cached]
            /\ pc' = [pc EXCEPT ![h] = "done"]
       ELSE /\ pc' = [pc EXCEPT ![h] = "swr_wait"]
            /\ UNCHANGED result
    /\ UNCHANGED <<caches, req, strategy, put, prior, lifecycle, outside>>

\* Mutant: the then callback does not write the fresh response.
StaleWhileRevalidateFetched_NoWrite(h, response) ==
    /\ strategy[h] = CACHE_STRATEGY.STALE_WHILE_REVALIDATE
    /\ pc[h] \in {"swr_wait", "done"}
    /\ net[h].state = "pending"
    /\ net' = [net EXCEPT ![h] = FetchResolved(response)]
    /\ IF pc[h] = "swr_wait"
       THEN AwaitFetchPromise(h, FetchPromise(Fulfilled(response)))
       ELSE UNCHANGED <<pc, result>>
    /\ UNCHANGED <<caches, req, strategy, put, prior, lifecycle, outside>>

\* The background fetch of handleStaleWhileRevalidate resolves: the then
\* callback, and the handler if it is waiting for fetchPromise.
StaleWhileRevalidateFetched(h, response) ==
    /\ strategy[h] = CACHE_STRATEGY.STALE_WHILE_REVALIDATE
    /\ pc[h] \in {"swr_wait", "done"}
    /\ net[h].state = "pending"
    /\ net' = [net EXCEPT ![h] = FetchResolved(response)]
    /\ put' = [put EXCEPT ![h] = PutIfOk(response)]
    /\ IF pc[h] = "swr_wait"
       THEN AwaitFetchPromise(h, FetchPromise(Fulfilled(response)))
       ELSE UNCHANGED <<pc, result>>
    /\ UNCHANGED <<caches, req, strategy, prior, lifecycle, outside>>

\* The background fetch of handleStaleWhileRevalidate rejects: the catch
\* callback, and the handler if it is waiting for fetchPromise.
StaleWhileRevalidateFetchFailed(h) ==
    /\ strategy[h] = CACHE_STRATEGY.STALE_WHILE_REVALIDATE
    /\ pc[h] \in {"swr_wait", "done"}
    /\ net[h].state = "pending"
    /\ net' = [net EXCEPT ![h] = FetchRejected]
    /\ IF pc[h] = "swr_wait"
       THEN AwaitFetchPromise(h, FetchPromise(Rejected))
       ELSE UNCHANGED <<pc, result>>
    /\ UNCHANGED <<caches, req, strategy, put, prior, lifecycle, outside>>

\* Mutant: the entry is written under the key of the home document.
CachePutStored_UnderIndex(h) ==
    /\ put[h].state = "pending"
    /\ caches' = CachePut(caches, CACHE_NAME, IndexUrl, put[h].resp)
    /\ put' = [put EXCEPT ![h].state = "stored"]
    /\ UNCHANGED <<pc, req, strategy, net, result, prior, lifecycle, outside>>

\* A cache.put(request, response.clone()) completes: the entry is written.
CachePutStored(h) ==
    /\ put[h].state = "pending"
    /\ caches' = CachePut(caches, CACHE_NAME, req[h].url, put[h].resp)
    /\ put' = [put EXCEPT ![h].state = "stored"]
    /\ UNCHANGED <<pc, req, strategy, net, result, prior, lifecycle, outside>>

\* Mutant: the rejected write replaces the answer by the network error.
CachePutFailed_AbortsResponse(h) ==
    /\ put[h].state = "pending"
    /\ put' = [put EXCEPT ![h].state = "failed"]
    /\ result' = [result EXCEPT ![h] = NetworkError]
    /\ UNCHANGED <<caches, pc, req, strategy, net, prior, lifecycle, outside>>

\* A cache.put rejects (quota exceeded, storage disabled): nothing awaits it.
CachePutFailed(h) ==
    /\ put[h].state = "pending"
    /\ put' = [put EXCEPT ![h].state = "failed"]
    /\ UNCHANGED <<caches, pc, req, strategy, net, result, prior, lifecycle, outside>>

Next ==
    \/ \E h \in Events, r \in Requests : FetchEvent(h, r)
    \/ \E h \in Events : handleRequest(h)
    \/ \E h \in Events : handleCacheFirst(h)
    \/ \E h \in Events, response \in ServerResponses : CacheFirstFetched(h, response)
    \/ \E h \in Events : CacheFirstFetchFailed(h)
    \/ \E h \in Events, response \in ServerResponses : handleNetworkFirst(h, response)
    \/ \E h \in Events : NetworkFirstFetchFailed(h)
    \/ \E h \in Events : NetworkFirstMatched(h)
    \/ \E h \in Events : NavigationFallbackSettled(h)
    \/ \E h \in Events : handleStaleWhileRevalidate(h)
    \/ \E h \in Events, response \in ServerResponses : StaleWhileRevalidateFetched(h, response)
    \/ \E h \in Events : StaleWhileRevalidateFetchFailed(h)
    \/ \E h \in Events : CachePutStored(h)
    \/ \E h \in Events : CachePutFailed(h)

Spec == Init /\ [][Next]_vars

\* A step of the handler of fetch event h towards its answer: the code after
\* an await runs once the awaited bucket operation or network fetch settles.
HandlerStep(h) ==
    \/ handleRequest(h)
    \/ handleCacheFirst(h)
    \/ \E response \in ServerResponses : CacheFirstFetched(h, response)
    \/ CacheFirstFetchFailed(h)
    \/ \E response \in ServerResponses : handleNetworkFirst(h, response)
    \/ NetworkFirstFetchFailed(h)
    \/ NetworkFirstMatched(h)
    \/ NavigationFallbackSettled(h)
    \/ handleStaleWhileRevalidate(h)
    \/ \E response \in ServerResponses : StaleWhileRevalidateFetched(h, response)
    \/ StaleWhileRevalidateFetchFailed(h)

\* The fetch listener when every bucket operation and every network fetch a
\* handler waits for settles, and the handler then runs on: the browser's
\* event loop runs every continuation whose promise has settled.
\* The requests are a document under each of its two strategies and a static
\* asset: one request for each of the three handlers.
SettlingRequests ==
    {Request("GET", RootUrl, "navigate"), Request("GET", IndexUrl, "navigate"),
     Request("GET", StyleUrl, "no-cors")}
SettlingNext ==
    \/ \E h \in Events, r \in SettlingRequests : FetchEvent(h, r)
    \/ \E h \in Events : HandlerStep(h)
    \/ \E h \in Events : CachePutStored(h)
    \/ \E h \in Events : CachePutFailed(h)
SpecSettling == Init /\ [][SettlingNext]_vars /\ \A h \in Events : WF_vars(HandlerStep(h))

\* The fetch listener against a site that is redeployed after every answer:
\* the k-th fetch to resolve with status 200 receives version k of its
\* resource, so that of two responses the one with the higher version is the
\* one whose fetch completed later.
Version(response) == CHOOSE b \in 1..NumVersions : ToString(b) = response.body
Deployed ==
    Cardinality({h \in Events : net[h].state = "resolved" /\ net[h].resp.status = 200})
RaceResponses ==
    {Response(200, "served", ToString(b)) : b \in {Deployed + 1} \cap (1..NumVersions)}
    \cup {Response(404, "served", "not found")}
RaceNext ==
    \/ \E h \in Events, r \in Requests : FetchEvent(h, r)
    \/ \E h \in Events : handleRequest(h)
    \/ \E h \in Events : handleCacheFirst(h)
    \/ \E h \in Events, response \in RaceResponses : CacheFirstFetched(h, response)
    \/ \E h \in Events : CacheFirstFetchFailed(h)
    \/ \E h \in Events, response \in RaceResponses : handleNetworkFirst(h, response)
    \/ \E h \in Events : NetworkFirstFetchFailed(h)
    \/ \E h \in Events : NetworkFirstMatched(h)
    \/ \E h \in Events : NavigationFallbackSettled(h)
    \/ \E h \in Events : handleStaleWhileRevalidate(h)
    \/ \E h \in Events, response \in RaceResponses : StaleWhileRevalidateFetched(h, response)
    \/ \E h \in Events : StaleWhileRevalidateFetchFailed(h)
    \/ \E h \in Events : CachePutStored(h)
    \/ \E h \in Events : CachePutFailed(h)
SpecRace == Init /\ [][RaceNext]_vars

TypeOK ==
    /\ DOMAIN caches \subseteq {CACHE_NAME}
    /\ \A h \in Events : pc[h] \in {"idle", "passthrough", "open", "cf_match", "cf_fetch",
                                      "nf_fetch", "nf_match", "swr_match", "swr_wait",
                                      "fallback", "done"}

\* ------------------------------------------- one fetch event, any request
\* The listener and the handlers on a single fetch event, the request drawn
\* from every combination of method, origin, path, query string and mode.
ListenerOrigins ==
    {LocationOrigin, <<"https://", "tinting.test", ".evil.example">>, <<"https://", "fonts.example">>}
ListenerExtensions ==
    {".html", ".css", ".js", ".woff", ".woff2", ".ttf",
     ".jpg", ".jpeg", ".png", ".gif", ".webp", ".svg", ".ico", ".mp4",
     ".htm", ".HTML", ".jsx", ".json", ".webmanifest", ".txt"}
ListenerPaths ==
    {<<"/">>, <<"/", "page">>, <<"/", "page", ".html", "/">>, <<"/", "page", ".js", ".map">>,
     <<"/", "html">>, <<"/", "dir", "/", "page", ".html">>}
    \cup {<<"/", "page", e>> : e \in ListenerExtensions}
ListenerQueries == {<<>>, <<"?v=1">>}
ListenerRequests ==
    {Request("GET", LocationOrigin \o p \o q, m) :
        p \in ListenerPaths, q \in ListenerQueries, m \in {"navigate", "no-cors"}}
    \cup {Request("GET", o \o p, "no-cors") :
            o \in ListenerOrigins \ {LocationOrigin},
            p \in {<<"/">>, <<"/", "page", ".html">>, <<"/", "page", ".css">>}}
    \cup {Request(method, o \o p, m) :
            method \in {"POST", "HEAD", "PUT"}, o \in ListenerOrigins,
            p \in {<<"/">>, <<"/", "page", ".html">>, <<"/", "page", ".css">>},
            m \in {"navigate", "no-cors"}}

FirstEvent == CHOOSE h \in Events : \A g \in Events : h <= g

ListenerNext ==
    \/ \E r \in ListenerRequests : FetchEvent(FirstEvent, r)
    \/ handleRequest(FirstEvent)
    \/ handleCacheFirst(FirstEvent)
    \/ \E response \in ServerResponses : CacheFirstFetched(FirstEvent, response)
    \/ CacheFirstFetchFailed(FirstEvent)
    \/ \E response \in ServerResponses : handleNetworkFirst(FirstEvent, response)
    \/ NetworkFirstFetchFailed(FirstEvent)
    \/ NetworkFirstMatched(FirstEvent)
    \/ NavigationFallbackSettled(FirstEvent)
    \/ handleStaleWhileRevalidate(FirstEvent)
    \/ \E response \in ServerResponses : StaleWhileRevalidateFetched(FirstEvent, response)
    \/ StaleWhileRevalidateFetchFailed(FirstEvent)
    \/ CachePutStored(FirstEvent)
    \/ CachePutFailed(FirstEvent)

SpecListener == Init /\ [][ListenerNext]_vars

\* ---------------------------------------------------------------- lifecycle
\* The install and activate listeners of this version, from the moment the
\* browser has evaluated the script, followed by the fetch events the browser
\* delivers once the worker is activated.  Cache Storage may already hold
\* buckets of other versions and a bucket of this name.  caches.open,
\* caches.keys and caches.delete are taken to succeed; the fetches of
\* cache.addAll may fail.
OldCacheNames == {"mainstream-tinting-v1.1", "mainstream-tinting-v1.0"}
\* What a bucket of another version serves.
PreviousResponse == Response(200, "served", "previous")
OldBucket == [k \in {RootUrl, IndexUrl, StyleUrl} |-> PreviousResponse]
\* Cache Storage found by the install: some old buckets, and no bucket of this
\* name, an empty one, or one an earlier install of this version filled.
Storage(names, current) ==
    [n \in names \cup (IF current = "absent" THEN {} ELSE {CACHE_NAME}) |->
        IF n # CACHE_NAME THEN OldBucket
        ELSE IF current = "empty" THEN EmptyBucket ELSE Installed[CACHE_NAME]]

LifecycleInit ==
    /\ caches \in {Storage(names, current) :
                      names \in SUBSET OldCacheNames, current \in {"absent", "empty", "filled"}}
    /\ pc = [h \in Events |-> "idle"]
    /\ req = [h \in Events |-> NoRequest]
    /\ strategy = [h \in Events |-> ""]
    /\ net = [h \in Events |-> NoFetch]
    /\ put = [h \in Events |-> NoPut]
    /\ result = [h \in Events |-> Undefined]
    /\ prior = [h \in Events |-> {}]
    /\ lifecycle = Parsed
    /\ OutsideInit

\* The pages of the manifest: the root path and the .html files.
ManifestPages == {f \in CACHE_FILES : f = <<"/">> \/ EndsWith(f, <<".html">>)}

\* The fetch events delivered to the activated worker.
LifecycleRequests ==
    {Request("GET", RootUrl, "navigate"), Request("GET", IndexUrl, "navigate"),
     Request("GET", StyleUrl, "no-cors")}

\* self.addEventListener('install', ...): event.waitUntil(caches.open(CACHE_NAME)...)
InstallEvent ==
    /\ lifecycle.worker = "parsed"
    /\ lifecycle' = [lifecycle EXCEPT !.worker = "installing", !.install = "open"]
    /\ UNCHANGED <<caches, pc, req, strategy, net, put, result, prior, outside>>

\* caches.open(CACHE_NAME) resolved: .then((cache) => cache.addAll(CACHE_FILES))
InstallOpened ==
    /\ lifecycle.install = "open"
    /\ caches' = CachesOpen(caches, CACHE_NAME)
    /\ lifecycle' = [lifecycle EXCEPT !.install = "addAll"]
    /\ UNCHANGED <<pc, req, strategy, net, put, result, prior, outside>>

\* Mutant: the root document is left out of the write.
AddAll_SkipsRoot(store, name, files, response) ==
    LET keys == {Resolve(f) : f \in files \ {<<"/">>}} IN
    [store EXCEPT ![name] =
        [k \in (DOMAIN store[name]) \cup keys |-> IF k \in keys THEN response ELSE store[name][k]]]

\* The effect of a fulfilled cache.addAll(files): every file is stored.
AddAll(store, name, files, response) ==
    LET keys == {Resolve(f) : f \in files} IN
    [store EXCEPT ![name] =
        [k \in (DOMAIN store[name]) \cup keys |-> IF k \in keys THEN response ELSE store[name][k]]]

\* The chain given to waitUntil ends in .catch((error) => { console.error(...) }):
\* a rejection of any earlier step becomes a fulfilment.
InstallPromise(outcome) == IF outcome = "rejected" THEN "fulfilled" ELSE outcome

\* cache.addAll fulfilled, every file answered with an ok response:
\* .then(() => self.skipWaiting())
InstallPrecached(response) ==
    /\ lifecycle.install = "addAll"
    /\ response.status = 200
    /\ caches' = AddAll(caches, CACHE_NAME, CACHE_FILES, response)
    /\ lifecycle' = [lifecycle EXCEPT !.install = "precached", !.skipWaiting = TRUE,
                                      !.waitUntil = InstallPromise("fulfilled")]
    /\ UNCHANGED <<pc, req, strategy, net, put, result, prior, outside>>

\* Mutant: the handler of the .catch asks to skip waiting as well.
InstallPrecacheFailed_SkipsWaiting(f, answer) ==
    /\ lifecycle.install = "addAll"
    /\ answer.state = "resolved" => answer.resp.status # 200
    /\ lifecycle' = [lifecycle EXCEPT !.install = "failed", !.skipWaiting = TRUE,
                                      !.waitUntil = InstallPromise("rejected")]
    /\ UNCHANGED <<caches, pc, req, strategy, net, put, result, prior, outside>>

\* cache.addAll rejected: the fetch of file f rejected (answer FetchRejected)
\* or resolved to a response that is not ok.  Nothing is stored, the second
\* .then is skipped and the .catch runs.
InstallPrecacheFailed(f, answer) ==
    /\ lifecycle.install = "addAll"
    /\ answer.state = "resolved" => answer.resp.status # 200
    /\ lifecycle' = [lifecycle EXCEPT !.install = "failed",
                                      !.waitUntil = InstallPromise("rejected")]
    /\ UNCHANGED <<caches, pc, req, strategy, net, put, result, prior, outside>>

\* The browser, when the promise given to the install event's waitUntil has
\* settled: the worker is installed if it fulfilled, discarded if it rejected.
InstallSettled ==
    /\ lifecycle.worker = "installing"
    /\ lifecycle.waitUntil # "pending"
    /\ lifecycle' = [lifecycle EXCEPT !.worker = IF lifecycle.waitUntil = "fulfilled"
                                                  THEN "installed" ELSE "redundant"]
    /\ UNCHANGED <<caches, pc, req, strategy, net, put, result, prior, outside>>

\* self.addEventListener('activate', ...): the browser activates an installed
\* worker at once when skipWaiting was called and no other version is active,
\* or later, when the pages of the previous version are closed.
\* event.waitUntil(caches.keys()...)
ActivateEvent ==
    /\ lifecycle.worker = "installed"
    /\ lifecycle' = [lifecycle EXCEPT !.worker = "activating", !.activate = "keys"]
    /\ UNCHANGED <<caches, pc, req, strategy, net, put, result, prior, outside>>

\* Mutant: only one of the other buckets is deleted.
ActivateKeys_DeletesOne ==
    /\ lifecycle.activate = "keys"
    /\ LET others == {n \in DOMAIN caches : n # CACHE_NAME} IN
       lifecycle' = [lifecycle EXCEPT !.activate = "deleting",
                                      !.cacheNames = DOMAIN caches,
                                      !.deleting = IF others = {} THEN {}
                                                   ELSE {CHOOSE n \in others : TRUE}]
    /\ UNCHANGED <<caches, pc, req, strategy, net, put, result, prior, outside>>

\* caches.keys() resolved: cacheNames.map(...) calls caches.delete(cacheName)
\* for every cacheName !== CACHE_NAME.
ActivateKeys ==
    /\ lifecycle.activate = "keys"
    /\ lifecycle' = [lifecycle EXCEPT !.activate = "deleting",
                                      !.cacheNames = DOMAIN caches,
                                      !.deleting = {n \in DOMAIN caches : n # CACHE_NAME}]
    /\ UNCHANGED <<caches, pc, req, strategy, net, put, result, prior, outside>>

\* A caches.delete(cacheName) completed.
CacheDeleted(n) ==
    /\ n \in lifecycle.deleting
    /\ caches' = [m \in (DOMAIN caches) \ {n} |-> caches[m]]
    /\ lifecycle' = [lifecycle EXCEPT !.deleting = @ \ {n}]
    /\ UNCHANGED <<pc, req, strategy, net, put, result, prior, outside>>

\* Mutant: the claim does not wait for the deletions.
ActivateClaim_BeforeDeletions ==
    /\ lifecycle.activate = "deleting"
    /\ lifecycle' = [lifecycle EXCEPT !.activate = "claimed", !.claimed = TRUE,
                                      !.worker = "activated"]
    /\ UNCHANGED <<caches, pc, req, strategy, net, put, result, prior, outside>>

\* Promise.all resolved: .then(() => self.clients.claim()); the promise given
\* to the activate event's waitUntil settles and the worker is activated.
ActivateClaim ==
    /\ lifecycle.activate = "deleting"
    /\ lifecycle.deleting = {}
    /\ lifecycle' = [lifecycle EXCEPT !.activate = "claimed", !.claimed = TRUE,
                                      !.worker = "activated"]
    /\ UNCHANGED <<caches, pc, req, strategy, net, put, result, prior, outside>>

\* The browser delivers fetch events to the worker once it is activated.
ActivatedFetchEvent(h, r) ==
    /\ lifecycle.worker = "activated"
    /\ FetchEvent(h, r)

LifecycleNext ==
    \/ InstallEvent
    \/ InstallOpened
    \/ \E response \in ServerResponses : InstallPrecached(response)
    \/ \E f \in CACHE_FILES, answer \in {FetchRejected} \cup {FetchResolved(r) : r \in ServerResponses} :
          InstallPrecacheFailed(f, answer)
    \/ InstallSettled
    \/ ActivateEvent
    \/ ActivateKeys
    \/ \E n \in OldCacheNames : CacheDeleted(n)
    \/ ActivateClaim
    \/ \E h \in Events, r \in LifecycleRequests : ActivatedFetchEvent(h, r)
    \/ \E h \in Events : handleRequest(h)
    \/ \E h \in Events : handleCacheFirst(h)
    \/ \E h \in Events, response \in ServerResponses : CacheFirstFetched(h, response)
    \/ \E h \in Events : CacheFirstFetchFailed(h)
    \/ \E h \in Events, response \in ServerResponses : handleNetworkFirst(h, response)
    \/ \E h \in Events : NetworkFirstFetchFailed(h)
    \/ \E h \in Events : NetworkFirstMatched(h)
    \/ \E h \in Events : NavigationFallbackSettled(h)
    \/ \E h \in Events : handleStaleWhileRevalidate(h)
    \/ \E h \in Events, response \in ServerResponses : StaleWhileRevalidateFetched(h, response)
    \/ \E h \in Events : StaleWhileRevalidateFetchFailed(h)
    \/ \E h \in Events : CachePutStored(h)
    \/ \E h \in Events : CachePutFailed(h)

SpecLifecycle == LifecycleInit /\ [][LifecycleNext]_vars

\* ------------------------------------------------------ push notifications
\* The push and notificationclick listeners.  At most MaxPushes push events
\* arrive.
MaxPushes == 2

\* JavaScript values of the payload's fields: a string, or undefined for a
\* field the payload does not have.
Str(s) == [kind |-> "string", str |-> s]
NoValue == [kind |-> "undefined", str |-> ""]
\* a || b for these values: undefined and the empty string are falsy.
Either(a, b) == IF a.kind # "undefined" /\ a.str # "" THEN a ELSE b

\* event.data of a push event: null, or a JSON payload { title, body, url? }.
NoData == [present |-> FALSE, title |-> NoValue, body |-> NoValue, url |-> NoValue]
PushData ==
    {NoData} \cup
    {[present |-> TRUE, title |-> Str(t), body |-> Str(b), url |-> u] :
        t \in {"Offer", "Reminder"}, b \in {"Ten percent off"},
        u \in {NoValue, Str(""), Str("/gallery.html")}}

\* self.addEventListener('push', ...): with data, showNotification(data.title,
\* { body: data.body, ..., data: { url: data.url || '/' } }).
PushEvent(data) ==
    /\ Len(pushed) < MaxPushes
    /\ pushed' = Append(pushed, data)
    /\ IF data.present
       THEN notifications' =
                Append(notifications,
                       [title |-> data.title, body |-> data.body,
                        data |-> [url |-> Either(data.url, Str("/"))], open |-> TRUE])
       ELSE UNCHANGED notifications
    /\ UNCHANGED <<inside, windows, cachedElements, lastUsed, page>>

\* Mutant: the window is opened at the root whatever the notification stores.
NotificationClick_OpensRoot(i) ==
    /\ i \in 1..Len(notifications)
    /\ notifications[i].open
    /\ notifications' = [notifications EXCEPT ![i].open = FALSE]
    /\ windows' = Append(windows, Str("/"))
    /\ UNCHANGED <<inside, pushed, cachedElements, lastUsed, page>>

\* self.addEventListener('notificationclick', ...): event.notification.close();
\* clients.openWindow(event.notification.data.url || '/')
NotificationClick(i) ==
    /\ i \in 1..Len(notifications)
    /\ notifications[i].open
    /\ notifications' = [notifications EXCEPT ![i].open = FALSE]
    /\ windows' = Append(windows, Either(notifications[i].data.url, Str("/")))
    /\ UNCHANGED <<inside, pushed, cachedElements, lastUsed, page>>

PushNext ==
    \/ \E data \in PushData : PushEvent(data)
    \/ \E i \in 1..MaxPushes : NotificationClick(i)

SpecPush == Init /\ [][PushNext]_vars

\* ------------------------------------------------ Utils.getCachedElement
\* The element cache of the page script.  A selector is a number: 0 matches no
\* element of the document, every other selector matches one.  The selectors
\* looked up are those up to _maxCacheSize and ExtraSelectors more.
_maxCacheSize == 100
ExtraSelectors == 3
Selectors == 0..(_maxCacheSize + ExtraSelectors)
\* document.querySelector(selector) finds an element
QuerySelectorFinds(selector) == selector # 0

Keys(map) == {map[i] : i \in 1..Len(map)}
Without(seq, x) == SelectSeq(seq, LAMBDA y : y # x)

\* The selectors looked up in a state: one matching nothing, the oldest and
\* the newest key of the Map, and the next selector not looked up so far.
NextSelector ==
    IF cachedElements = <<>> THEN 1
    ELSE 1 + CHOOSE m \in Keys(cachedElements) : \A k \in Keys(cachedElements) : k <= m
Probes ==
    {0}
    \cup {cachedElements[i] : i \in {1, Len(cachedElements)} \cap (1..Len(cachedElements))}
    \cup ({NextSelector} \cap Selectors)

\* getCachedElement(selector): a selector of the Map is answered from it; for
\* another one that matches an element, the first key of the Map is deleted
\* when the Map holds _maxCacheSize keys, and the selector is set.
\* lastUsed is a history variable, read by no action.
getCachedElement(selector) ==
    /\ IF selector \in Keys(cachedElements)
       THEN /\ UNCHANGED cachedElements
            /\ lastUsed' = Append(Without(lastUsed, selector), selector)
       ELSE IF QuerySelectorFinds(selector)
       THEN IF Len(cachedElements) >= _maxCacheSize
            THEN LET firstKey == cachedElements[1] IN
                 /\ cachedElements' = Append(Without(cachedElements, firstKey), selector)
                 /\ lastUsed' = Append(Without(lastUsed, firstKey), selector)
            ELSE /\ cachedElements' = Append(cachedElements, selector)
                 /\ lastUsed' = Append(lastUsed, selector)
       ELSE UNCHANGED <<cachedElements, lastUsed>>
    /\ UNCHANGED <<inside, pushed, notifications, windows, page>>

ElementsNext == \E selector \in Probes : getCachedElement(selector)

SpecElements == Init /\ [][ElementsNext]_vars

\* ------------------------------------------------ contactForm.uploadedFiles
\* A File of a file input: its name, its size in bytes and its MIME type.
\* An entry of uploadedFiles carries the File and copies of the three.
maxFileSize == 25 * 1024 * 1024
validImageTypes == {"image/jpeg", "image/jpg", "image/png", "image/gif", "image/webp"}
validPDFType == "application/pdf"
maxTotalFiles == 10
maxTotalSize == 90 * 1024 * 1024
\* The file events the user causes.
MaxFileEvents == 4

File(name, size, type) == [name |-> name, size |-> size, type |-> type]

\* the sum of the sizes of the first n files
RECURSIVE FoldSizes(_, _)
FoldSizes(files, n) == IF n = 0 THEN 0 ELSE FoldSizes(files, n - 1) + files[n].size

\* The loop of handleFileChange over the new files from the i-th on: the
\* files that pass every check, in order.  A file is compared for duplicates
\* with the files uploaded before the event.
RECURSIVE ValidFiles(_, _, _, _, _)
ValidFiles(existingFiles, newFiles, allowsPDF, i, newTotalSize) ==
    IF i > Len(newFiles) THEN <<>>
    ELSE LET file == newFiles[i]
             isDuplicate == \E j \in 1..Len(existingFiles) :
                                existingFiles[j].name = file.name /\ existingFiles[j].size = file.size
             isValidImage == file.type \in validImageTypes
             isValidPDF == allowsPDF /\ file.type = validPDFType
         IN IF \/ file.name = <<>>
               \/ isDuplicate
               \/ file.size = 0
               \/ file.size > maxFileSize
               \/ newTotalSize + file.size > maxTotalSize
               \/ ~isValidImage /\ ~isValidPDF
            THEN ValidFiles(existingFiles, newFiles, allowsPDF, i + 1, newTotalSize)
            ELSE <<file>> \o ValidFiles(existingFiles, newFiles, allowsPDF, i + 1,
                                        newTotalSize + file.size)

\* handleFileChange(event): uploadedFiles after the event, from uploadedFiles
\* before it, event.target.files and whether the accept attribute allows PDF.
handleFileChange(files, newFiles, allowsPDF) ==
    IF Len(newFiles) = 0 THEN files
    ELSE IF Len(files) + Len(newFiles) > maxTotalFiles THEN files
    ELSE files \o ValidFiles(files, newFiles, allowsPDF, 1, FoldSizes(files, Len(files)))

\* removeFile(index): index counts from 0
removeFile(files, index) ==
    IF index < 0 \/ index >= Len(files) THEN files
    ELSE [i \in 1..(Len(files) - 1) |-> IF i <= index THEN files[i] ELSE files[i + 1]]

\* clearAllFiles()
clearAllFiles(files) == <<>>

\* The files the user selects.  Photos and scans are numbered; the next one
\* selected is the first whose number is above those uploaded.
MB == 1024 * 1024
Photo(n) == File(<<"photo", n>>, MB, "image/jpeg")
Scan(n) == File(<<"scan", n>>, 24 * MB, "image/png")
EmptyFile == File(<<"empty">>, 0, "image/png")
Oversize == File(<<"poster">>, maxFileSize + 1, "image/webp")
TextFile == File(<<"notes">>, MB, "text/plain")
PdfFile == File(<<"quote">>, MB, validPDFType)
Unnamed == File(<<>>, MB, "image/gif")
NextNumber(files, series) ==
    LET used == {files[i].name[2] : i \in {j \in 1..Len(files) : files[j].name # <<>> /\ files[j].name[1] = series}}
    IN IF used = {} THEN 1 ELSE 1 + CHOOSE m \in used : \A k \in used : k <= m
Batches(files) ==
    LET p == NextNumber(files, "photo")
        s == NextNumber(files, "scan")
    IN {<<>>, <<Photo(p)>>, [i \in 1..5 |-> Photo(p + i - 1)],
        <<Scan(s)>>, [i \in 1..3 |-> Scan(s + i - 1)],
        <<EmptyFile>>, <<Oversize>>, <<TextFile>>, <<PdfFile>>, <<Unnamed>>,
        <<Photo(p), Photo(p)>>, <<TextFile, Photo(p)>>}
       \cup {<<files[i]>> : i \in {1} \cap (1..Len(files))}

UnchangedButPage == UNCHANGED <<inside, pushed, notifications, windows, cachedElements, lastUsed>>

\* @change of the file input
FileChange(newFiles, allowsPDF) ==
    /\ page.clicks < MaxFileEvents
    /\ page' = [page EXCEPT !.clicks = @ + 1,
                            !.contactForm.uploadedFiles = handleFileChange(@, newFiles, allowsPDF)]
    /\ UnchangedButPage

\* @click of a file's remove button
RemoveFile(index) ==
    /\ page.clicks < MaxFileEvents
    /\ page' = [page EXCEPT !.clicks = @ + 1,
                            !.contactForm.uploadedFiles = removeFile(@, index)]
    /\ UnchangedButPage

\* @click of the clear button
ClearAllFiles ==
    /\ page.clicks < MaxFileEvents
    /\ page' = [page EXCEPT !.clicks = @ + 1,
                            !.contactForm.uploadedFiles = clearAllFiles(@)]
    /\ UnchangedButPage

FilesNext ==
    \/ \E newFiles \in Batches(page.contactForm.uploadedFiles), allowsPDF \in BOOLEAN :
           FileChange(newFiles, allowsPDF)
    \/ \E index \in {-1, 0, Len(page.contactForm.uploadedFiles) - 1, Len(page.contactForm.uploadedFiles)} :
           RemoveFile(index)
    \/ ClearAllFiles

SpecFiles == Init /\ [][FilesNext]_vars

\* -------------------------------------------------- contactForm.submitForm
\* The contact form of the page script.  submitForm runs up to its first
\* await in one step and is then suspended in page.submissions; a step of the
\* model is the user's submit event, the settling of an awaited promise of a
\* suspended invocation, or a timer callback.
_maxSubmissionAttempts == 5
_minSubmissionInterval == 2000
_maxRetries == 2
\* The submit events the user causes.
MaxClicks == 4

\* _resetSubmissionState(success)
_resetSubmissionState(form) ==
    [form EXCEPT !.isSubmitting = FALSE, !._submissionLock = FALSE]

\* setTimeout(() => { this._submissionAttempts = 0; ... }, 300000)
ResetTimer == [callback |-> "reset", since |-> 0]
\* setTimeout(() => { if (!this.isSubmitting && !this._submissionLock) form.dispatchEvent(submitEvent) }, 2000 or 3000),
\* set while Date.now() of the last submission was `since`
RetryTimer(since) == [callback |-> "retry", since |-> since]

\* The catch block of submitForm's outer try.  Its first statement compares
\* this._submissionId with submissionId, a const declared inside the try
\* block and so not in scope in the catch block: evaluating it throws a
\* ReferenceError, the statements after it (this._resetSubmissionState()
\* among them) do not run, and the promise of submitForm rejects.
OuterCatch(form) == form

\* Milliseconds between Date.now() of the last submission and of a call.
Elapsed == {1, _minSubmissionInterval}
\* Math.random().toString(36).substr(2, 9)
RandomSuffixes == {"k3x9", "q7m2"}
\* form.checkValidity() and the checks of the name, e-mail and message fields
FieldStates == {"valid", "invalid"}

\* The file checks of submitForm on uploadedFiles: "too many" above 10 files,
\* "invalid" for a file that is empty, above 25MB or of a type not accepted
\* (PDF is accepted when the input's accept attribute allows it), or when the
\* total is above 90MB; "ok" otherwise.
SubmitFileCheck(files, allowsPDF) ==
    IF Len(files) > maxTotalFiles THEN "too many"
    ELSE IF \E i \in 1..Len(files) :
               \/ files[i].size = 0
               \/ files[i].size > maxFileSize
               \/ ~(files[i].type \in validImageTypes \/ (allowsPDF /\ files[i].type = validPDFType))
         THEN "invalid"
    ELSE IF FoldSizes(files, Len(files)) > maxTotalSize THEN "invalid"
    ELSE "ok"

\* Mutant: the lock is not looked at.
submitForm_IgnoresLock(p, hasTarget, elapsed, fields, allowsPDF, random, thrown) ==
    LET form == p.contactForm
        now == form._lastSubmissionTime + elapsed
        locked == [form EXCEPT !._submissionId = <<now, random>>,
                               !._submissionLock = TRUE,
                               !.isSubmitting = TRUE,
                               !._lastSubmissionTime = now,
                               !._submissionAttempts = @ + 1]
        files == SubmitFileCheck(form.uploadedFiles, allowsPDF)
    IN
    IF ~hasTarget THEN p
    ELSE IF elapsed < _minSubmissionInterval /\ form._lastSubmissionTime > 0 THEN p
    ELSE IF form._submissionAttempts >= _maxSubmissionAttempts
         THEN [p EXCEPT !.timers = Append(@, ResetTimer)]
    ELSE IF fields = "invalid" \/ files = "too many"
         THEN [p EXCEPT !.contactForm = _resetSubmissionState(locked)]
    ELSE IF files = "invalid" THEN [p EXCEPT !.contactForm = locked]
    ELSE IF thrown THEN [p EXCEPT !.contactForm = OuterCatch(locked)]
    ELSE [p EXCEPT !.contactForm = locked,
                   !.submissions = Append(@, [submissionId |-> locked._submissionId,
                                              at |-> "fetch", status |-> 0])]

\* Mutant: the attempts are counted but not limited.
submitForm_UnlimitedAttempts(p, hasTarget, elapsed, fields, allowsPDF, random, thrown) ==
    LET form == p.contactForm
        now == form._lastSubmissionTime + elapsed
        locked == [form EXCEPT !._submissionId = <<now, random>>,
                               !._submissionLock = TRUE,
                               !.isSubmitting = TRUE,
                               !._lastSubmissionTime = now,
                               !._submissionAttempts = @ + 1]
        files == SubmitFileCheck(form.uploadedFiles, allowsPDF)
    IN
    IF ~hasTarget THEN p
    ELSE IF form.isSubmitting \/ form._submissionLock THEN p
    ELSE IF elapsed < _minSubmissionInterval /\ form._lastSubmissionTime > 0 THEN p
    ELSE IF fields = "invalid" \/ files = "too many"
         THEN [p EXCEPT !.contactForm = _resetSubmissionState(locked)]
    ELSE IF files = "invalid" THEN [p EXCEPT !.contactForm = locked]
    ELSE IF thrown THEN [p EXCEPT !.contactForm = OuterCatch(locked)]
    ELSE [p EXCEPT !.contactForm = locked,
                   !.submissions = Append(@, [submissionId |-> locked._submissionId,
                                              at |-> "fetch", status |-> 0])]

\* submitForm(event) up to `await fetch(...)` or an earlier return, on the
\* page state p.  hasTarget: the event has a target; elapsed: Date.now()
\* minus _lastSubmissionTime; fields: the outcome of the field checks;
\* thrown: a statement between the checks and the fetch throws.
submitForm(p, hasTarget, elapsed, fields, allowsPDF, random, thrown) ==
    LET form == p.contactForm
        now == form._lastSubmissionTime + elapsed
        locked == [form EXCEPT !._submissionId = <<now, random>>,
                               !._submissionLock = TRUE,
                               !.isSubmitting = TRUE,
                               !._lastSubmissionTime = now,
                               !._submissionAttempts = @ + 1]
        files == SubmitFileCheck(form.uploadedFiles, allowsPDF)
    IN
    IF ~hasTarget THEN p
    ELSE IF form.isSubmitting \/ form._submissionLock THEN p
    ELSE IF elapsed < _minSubmissionInterval /\ form._lastSubmissionTime > 0 THEN p
    ELSE IF form._submissionAttempts >= _maxSubmissionAttempts
         THEN [p EXCEPT !.timers = Append(@, ResetTimer)]
    ELSE IF fields = "invalid" \/ files = "too many"
         THEN [p EXCEPT !.contactForm = _resetSubmissionState(locked)]
    ELSE IF files = "invalid" THEN [p EXCEPT !.contactForm = locked]
    ELSE IF thrown THEN [p EXCEPT !.contactForm = OuterCatch(locked)]
    ELSE [p EXCEPT !.contactForm = locked,
                   !.submissions = Append(@, [submissionId |-> locked._submissionId,
                                              at |-> "fetch", status |-> 0])]

\* What `await fetch(...)` of a submission settles to: a response with a
\* status, or a rejection (AbortError after the 15 s timeout aborts the
\* request, a network TypeError, any other error).
FetchOutcomes ==
    {[kind |-> "response", status |-> s] : s \in {200, 400, 422, 429, 500}}
    \cup {[kind |-> "error", status |-> 0, name |-> n] : n \in {"AbortError", "network", "other"}}
Ok(status) == status >= 200 /\ status <= 299
\* What `await response.json()` of an error response gives: an error message
\* about file uploads, another message, or a body that does not parse.
ErrorBodies == {"file", "other", "unparseable"}

RemoveAt(seq, i) == [j \in 1..(Len(seq) - 1) |-> IF j < i THEN seq[j] ELSE seq[j + 1]]

\* The retry branches of the timeout, network-error and 5xx paths, after
\* _resetSubmissionState(): a retry is scheduled while _retryCount is below
\* _maxRetries.
ScheduleRetry(p) ==
    LET form == _resetSubmissionState(p.contactForm) IN
    IF form._retryCount < _maxRetries
    THEN [p EXCEPT !.contactForm = [form EXCEPT !._retryCount = @ + 1],
                   !.timers = Append(@, RetryTimer(form._lastSubmissionTime))]
    ELSE [p EXCEPT !.contactForm = form]

\* The success branch: _resetSubmissionState(true) and the resets after it.
Succeeded(p) ==
    [p EXCEPT !.contactForm =
        [_resetSubmissionState(@) EXCEPT !.uploadedFiles = <<>>,
                                         !._retryCount = 0,
                                         !._submissionAttempts = 0]]

\* "Handle specific HTTP status codes" and the statements after it.
ErrorStatus(p, status) ==
    IF status = 429
    THEN [p EXCEPT !.contactForm =
             _resetSubmissionState([@ EXCEPT !._submissionAttempts = _maxSubmissionAttempts])]
    ELSE IF status >= 500 THEN ScheduleRetry(p)
    ELSE [p EXCEPT !.contactForm = _resetSubmissionState(@)]

\* submit event of the user
Submit(hasTarget, elapsed, fields, allowsPDF, random, thrown) ==
    /\ page.clicks < MaxClicks
    /\ page' = [submitForm(page, hasTarget, elapsed, fields, allowsPDF, random, thrown)
                    EXCEPT !.clicks = @ + 1]
    /\ UnchangedButPage

\* `await fetch(...)` of the i-th suspended submission settles: submitForm
\* from there to its next await or its return.  thrown: gtag(...) of the
\* success branch throws.
FetchSettled(i, outcome, thrown) ==
    /\ i \in 1..Len(page.submissions)
    /\ page.submissions[i].at = "fetch"
    /\ LET sub == page.submissions[i]
           p == [page EXCEPT !.submissions = RemoveAt(@, i)]
       IN page' =
            IF page.contactForm._submissionId # sub.submissionId THEN p
            ELSE IF outcome.kind = "error"
                 THEN IF outcome.name \in {"AbortError", "network"}
                      THEN ScheduleRetry(p)
                      ELSE [p EXCEPT !.contactForm = _resetSubmissionState(@)]
            ELSE IF Ok(outcome.status)
                 THEN IF thrown
                      THEN [p EXCEPT !.contactForm = OuterCatch(@)]
                      ELSE Succeeded(p)
            ELSE [page EXCEPT !.submissions[i] = [sub EXCEPT !.at = "json", !.status = outcome.status]]
    /\ UnchangedButPage

\* `await response.json()` of the i-th suspended submission settles.
JsonSettled(i, body) ==
    /\ i \in 1..Len(page.submissions)
    /\ page.submissions[i].at = "json"
    /\ LET sub == page.submissions[i]
           hasFiles == Len(page.contactForm.uploadedFiles) > 0
           isFileUploadError ==
               \/ body = "file"
               \/ body = "unparseable" /\ sub.status = 422 /\ hasFiles
       IN page' =
            IF isFileUploadError /\ hasFiles
            THEN [page EXCEPT !.submissions[i].at = "refetch"]
            ELSE ErrorStatus([page EXCEPT !.submissions = RemoveAt(@, i)], sub.status)
    /\ UnchangedButPage

\* `await fetch(...)` of the resubmission without files settles: ok, or a
\* response that is not ok or a rejection.
RefetchSettled(i, ok) ==
    /\ i \in 1..Len(page.submissions)
    /\ page.submissions[i].at = "refetch"
    /\ LET p == [page EXCEPT !.submissions = RemoveAt(@, i)]
       IN page' = IF ok THEN Succeeded(p) ELSE ErrorStatus(p, page.submissions[i].status)
    /\ UnchangedButPage

\* A setTimeout callback runs.  The callback of a retry dispatches a submit
\* event when the form is not submitting; at least _minSubmissionInterval
\* has then passed since the submission that scheduled it.
TimerFired(i, elapsed, fields, allowsPDF, random, thrown) ==
    /\ i \in 1..Len(page.timers)
    /\ LET timer == page.timers[i]
           form == page.contactForm
           p == [page EXCEPT !.timers = RemoveAt(@, i)]
       IN IF timer.callback = "reset"
          THEN page' = [p EXCEPT !.contactForm._submissionAttempts = 0]
          ELSE /\ form._lastSubmissionTime = timer.since => elapsed = _minSubmissionInterval
               /\ page' = IF ~form.isSubmitting /\ ~form._submissionLock
                          THEN submitForm(p, TRUE, elapsed, fields, allowsPDF, random, thrown)
                          ELSE p
    /\ UnchangedButPage

\* @change of the file input with one photo
PhotoSelected ==
    /\ page' = [page EXCEPT !.contactForm.uploadedFiles = handleFileChange(@, <<Photo(1)>>, FALSE)]
    /\ UnchangedButPage

FormNext ==
    \/ \E hasTarget \in BOOLEAN, elapsed \in Elapsed, fields \in FieldStates,
          allowsPDF \in BOOLEAN, random \in RandomSuffixes, thrown \in BOOLEAN :
           Submit(hasTarget, elapsed, fields, allowsPDF, random, thrown)
    \/ \E i \in 1..MaxClicks, outcome \in FetchOutcomes, thrown \in BOOLEAN :
           FetchSettled(i, outcome, thrown)
    \/ \E i \in 1..MaxClicks, body \in ErrorBodies : JsonSettled(i, body)
    \/ \E i \in 1..MaxClicks, ok \in BOOLEAN : RefetchSettled(i, ok)
    \/ \E i \in 1..(3 * MaxClicks), elapsed \in Elapsed, fields \in FieldStates,
          allowsPDF \in BOOLEAN, random \in RandomSuffixes, thrown \in BOOLEAN :
           TimerFired(i, elapsed, fields, allowsPDF, random, thrown)
    \/ PhotoSelected

SpecForm == Init /\ [][FormNext]_vars

\* ------------------------------------------------------------------ claims
\* The entry of the current bucket under the key of event h's request.
Entry(h) == CacheMatch(caches, CACHE_NAME, req[h].url)
IsStrategy(h, tag) == strategy[h] = tag
\* Event h's handler returns in this step.
Returns(h) == pc[h] # "done" /\ pc'[h] = "done"

\* C1: when a navigation request reaches the failure path, the handler answers
\* with the cached offline page if the bucket holds it, otherwise with the
\* cached home document if the bucket holds it, otherwise with the synthesized
\* 200 text/html notice; the result is always a response.
C1_NavigationFallbackChain ==
    [][\A h \in Events :
        (pc[h] = "fallback" /\ pc'[h] = "done") =>
            /\ result'[h] =
                  IF Truthy(CacheMatch(caches, CACHE_NAME, OfflineUrl))
                  THEN CacheMatch(caches, CACHE_NAME, OfflineUrl)
                  ELSE IF Truthy(CacheMatch(caches, CACHE_NAME, IndexUrl))
                  THEN CacheMatch(caches, CACHE_NAME, IndexUrl)
                  ELSE OfflineNotice
            /\ result'[h].kind = "response"]_vars

\* C2: in each of the three strategies, a non-navigation request whose network
\* fetch fails and which has no entry in the bucket is answered with the
\* synthesized 408 text/plain "Network error" response.
C2_NonNavigationOffline408 ==
    [][\A h \in Events :
        ( /\ Returns(h)
          /\ req[h].mode # "navigate"
          /\ net'[h].state = "failed"
          /\ pc[h] \in {"cf_fetch", "nf_match", "swr_wait"}
          /\ (pc[h] = "nf_match" => ~Truthy(Entry(h))) )
        => result'[h] = NetworkError]_vars

\* C3: the promise given to respondWith always resolves to a response object,
\* whatever the network outcome and the bucket content.
C3_AlwaysAResponse ==
    \A h \in Events : pc[h] = "done" => result[h].kind = "response"

\* C4: under stale-while-revalidate, when the bucket holds an entry for the
\* request, the handler returns that entry in the step that starts the network
\* fetch: the fetch is still pending and nothing was written by this event.
C4_StaleReturnedWithoutWaiting ==
    [][\A h \in Events :
        (pc[h] = "swr_match" /\ pc'[h] # "swr_match" /\ Truthy(Entry(h))) =>
            /\ pc'[h] = "done"
            /\ result'[h] = Entry(h)
            /\ net'[h] = FetchStarted
            /\ put'[h] = NoPut
            /\ caches' = caches]_vars

\* C4 witness: a stale entry has been returned while the network fetch of the
\* same event has not settled.
C4_Witness ==
    \E h \in Events :
        /\ IsStrategy(h, CACHE_STRATEGY.STALE_WHILE_REVALIDATE)
        /\ pc[h] = "done"
        /\ net[h].state = "pending"
        /\ result[h].kind = "response"
        /\ result[h].status = 200

\* C5: under network-first, a status-200 network response is what is returned
\* (not the cached copy), its write to the bucket is started, and when that
\* write completes the bucket entry of the request equals it.
C5_NetworkFirstFreshness ==
    [][\A h \in Events :
        IsStrategy(h, CACHE_STRATEGY.NETWORK_FIRST) =>
            /\ (pc[h] = "nf_fetch" /\ net'[h].state = "resolved" /\ net'[h].resp.status = 200) =>
                  /\ pc'[h] = "done"
                  /\ result'[h] = net'[h].resp
                  /\ put'[h] = [state |-> "pending", resp |-> net'[h].resp]
            /\ (put[h].state = "pending" /\ put'[h].state = "stored") =>
                  CacheMatch(caches', CACHE_NAME, req[h].url) = result[h]]_vars

\* C5 witness: a network-first handler has returned a network response that
\* differs from the cached copy of its request.
C5_Witness ==
    \E h \in Events :
        /\ IsStrategy(h, CACHE_STRATEGY.NETWORK_FIRST)
        /\ pc[h] = "done"
        /\ net[h].state = "resolved"
        /\ net[h].resp.status = 200
        /\ Truthy(Entry(h))
        /\ Entry(h) # net[h].resp
        /\ result[h] = net[h].resp
        /\ put[h].state = "pending"

NoOtherWrite(g) ==
    \A k \in Events \ {g} : ~(req[k].url = req[g].url /\ put[k].state = "stored")

C7_CacheFirstHit ==
    [][\A h \in Events :
        /\ (pc[h] = "cf_match" /\ pc'[h] # "cf_match" /\ Truthy(Entry(h))) =>
              /\ pc'[h] = "done"
              /\ result'[h] = Entry(h)
              /\ net'[h] = NoFetch
              /\ put'[h] = NoPut
              /\ caches' = caches
        /\ (IsStrategy(h, CACHE_STRATEGY.CACHE_FIRST) /\ pc[h] = "done" /\ net[h] = NoFetch) =>
              /\ net'[h] = NoFetch
              /\ put'[h] = NoPut]_vars

\* C7 witness: a cache-first handler has answered from the bucket.
C7_Witness ==
    \E h \in Events :
        /\ IsStrategy(h, CACHE_STRATEGY.CACHE_FIRST)
        /\ pc[h] = "done"
        /\ net[h] = NoFetch
        /\ result[h] = Entry(h)
        /\ result[h].kind = "response"

C9_NetworkFirstFallsBackToCache ==
    [][\A h \in Events :
        /\ (pc[h] = "nf_match" /\ pc'[h] # "nf_match" /\ Truthy(Entry(h))) =>
              /\ net[h].state = "failed"
              /\ pc'[h] = "done"
              /\ result'[h] = Entry(h)
              /\ put'[h] = NoPut
              /\ caches' = caches
        /\ (IsStrategy(h, CACHE_STRATEGY.NETWORK_FIRST) /\ net[h].state = "failed") =>
              put'[h] = NoPut]_vars

\* C9 witness: a network-first handler whose fetch failed has returned the
\* cached entry of its request.
C9_Witness ==
    \E h \in Events :
        /\ IsStrategy(h, CACHE_STRATEGY.NETWORK_FIRST)
        /\ pc[h] = "done"
        /\ net[h].state = "failed"
        /\ result[h].kind = "response"
        /\ result[h] = Entry(h)

\* C10: under stale-while-revalidate with a cached entry, the background fetch
\* settles after the stale response was returned: a status-200 response starts
\* a write that overwrites the entry with the fresh response, and a failure
\* changes neither the response already returned nor the bucket.
C10_BackgroundRevalidation ==
    [][\A h \in Events :
        IsStrategy(h, CACHE_STRATEGY.STALE_WHILE_REVALIDATE) =>
            /\ (pc[h] = "done" /\ net[h].state = "pending") =>
                  /\ pc'[h] = "done"
                  /\ result'[h] = result[h]
                  /\ (net'[h].state = "resolved" /\ net'[h].resp.status = 200) =>
                        put'[h] = [state |-> "pending", resp |-> net'[h].resp]
                  /\ net'[h].state = "failed" => (put'[h] = NoPut /\ caches' = caches)
            /\ (put[h].state = "pending" /\ put'[h].state = "stored") =>
                  CacheMatch(caches', CACHE_NAME, req[h].url) = net[h].resp]_vars

\* C10 witness: the stale entry was returned and the background refresh has
\* overwritten it with a different, fresh response.
C10_Witness ==
    \E h \in Events :
        /\ IsStrategy(h, CACHE_STRATEGY.STALE_WHILE_REVALIDATE)
        /\ pc[h] = "done"
        /\ result[h].kind = "response"
        /\ net[h].state = "resolved"
        /\ put[h].state = "stored"
        /\ Entry(h) = net[h].resp
        /\ Entry(h) # result[h]

\* C11: a GET request whose origin is not the worker's own origin, a foreign
\* origin whose URL string begins with the app's origin string included, is
\* not answered: the listener returns without respondWith, no handler fetches
\* it, and its URL is never written to a bucket.
C11_ForeignOriginNotAnswered ==
    \A h \in Events :
        (pc[h] # "idle" /\ req[h].method = "GET" /\ OriginOf(req[h].url) # LocationOrigin) =>
            /\ pc[h] = "passthrough"
            /\ net[h] = NoFetch
            /\ put[h] = NoPut
            /\ \A n \in DOMAIN caches : req[h].url \notin DOMAIN caches[n]

\* C12: a request whose method is not GET, whatever its origin and path, is
\* left to the browser: the listener returns without respondWith, no strategy
\* is chosen, no handler fetches it or reads or writes the bucket, and Cache
\* Storage is as it was before the event.
C12_NonGetPassesThrough ==
    [][\A h \in Events :
        (pc'[h] # "idle" /\ req'[h].method # "GET") =>
            /\ pc'[h] = "passthrough"
            /\ strategy'[h] = ""
            /\ net'[h] = NoFetch
            /\ put'[h] = NoPut
            /\ result'[h] = Undefined
            /\ caches' = caches]_vars

\* C12 witness: a POST of a same-origin document was passed through while the
\* bucket held an entry for its URL.
C12_Witness ==
    \E h \in Events :
        /\ pc[h] = "passthrough"
        /\ req[h].method = "POST"
        /\ OriginOf(req[h].url) = LocationOrigin
        /\ EndsWith(Pathname(req[h].url), <<".html">>)
        /\ caches = Installed

\* The strategy the specification's table gives a path.
C13_Table(path) ==
    LET last == path[Len(path)] IN
    CASE last = ".html" -> CACHE_STRATEGY.NETWORK_FIRST
      [] last \in {".css", ".js", ".woff", ".woff2", ".ttf"} -> CACHE_STRATEGY.CACHE_FIRST
      [] last \in {".jpg", ".jpeg", ".png", ".gif", ".webp", ".svg", ".ico", ".mp4"} ->
            CACHE_STRATEGY.CACHE_FIRST
      [] OTHER -> CACHE_STRATEGY.STALE_WHILE_REVALIDATE
\* The positions of the handler of a strategy.
C13_Positions(tag) ==
    CASE tag = CACHE_STRATEGY.CACHE_FIRST -> {"cf_match", "cf_fetch"}
      [] tag = CACHE_STRATEGY.NETWORK_FIRST -> {"nf_fetch", "nf_match"}
      [] tag = CACHE_STRATEGY.STALE_WHILE_REVALIDATE -> {"swr_match", "swr_wait"}

\* C13: the strategy of an intercepted request is a function of the path of
\* its URL alone: .html gives NETWORK_FIRST; .css .js .woff .woff2 .ttf and
\* .jpg .jpeg .png .gif .webp .svg .ico .mp4 give CACHE_FIRST; every other
\* path gives STALE_WHILE_REVALIDATE; only the handler of that strategy runs;
\* the query string, the request mode and the bucket do not change the result.
C13_ClassificationByPath ==
    \A h \in Events : \A p \in ListenerPaths, q \in ListenerQueries :
        (pc[h] \notin {"idle", "passthrough"} /\ req[h].url = LocationOrigin \o p \o q) =>
            /\ strategy[h] = C13_Table(p)
            /\ pc[h] \in {"open", "fallback", "done"} \cup C13_Positions(C13_Table(p))

\* C13 witness: a navigation to a stylesheet URL with a query string, the
\* bucket populated, is in the cache-first handler.
C13_Witness ==
    \E h \in Events :
        /\ pc[h] = "cf_fetch"
        /\ req[h].url = LocationOrigin \o <<"/", "page", ".css">> \o <<"?v=1">>
        /\ req[h].mode = "navigate"
        /\ caches = Installed

\* C14 as stated: a navigation request whose path does not end in .html, such
\* as '/', is classified NETWORK_FIRST.
C14_BareNavigationNetworkFirst ==
    \A h \in Events :
        (/\ pc[h] \notin {"idle", "passthrough"}
         /\ req[h].mode = "navigate"
         /\ ~EndsWith(Pathname(req[h].url), <<".html">>)) =>
            strategy[h] = CACHE_STRATEGY.NETWORK_FIRST

\* C14: a navigation request is classified by its path like any other
\* request: when the path does not end in .html it is never NETWORK_FIRST, and
\* the bare navigation to '/' is STALE_WHILE_REVALIDATE.
C14_BareNavigationByPath ==
    \A h \in Events :
        (/\ pc[h] \notin {"idle", "passthrough"}
         /\ req[h].mode = "navigate"
         /\ ~EndsWith(Pathname(req[h].url), <<".html">>)) =>
            /\ strategy[h] # CACHE_STRATEGY.NETWORK_FIRST
            /\ Pathname(req[h].url) = <<"/">> =>
                  strategy[h] = CACHE_STRATEGY.STALE_WHILE_REVALIDATE

\* C14 witness: the navigation to '/' is in the stale-while-revalidate handler.
C14_Witness ==
    \E h \in Events :
        /\ req[h] = Request("GET", RootUrl, "navigate")
        /\ pc[h] = "swr_match"

\* C15: when an activate cycle completes, whatever buckets Cache Storage held
\* before the install (buckets of other versions, with or without a bucket of
\* this name), exactly one bucket remains and it is the current version's:
\* every bucket with another name has been deleted.
C15_ActivateLeavesCurrentBucket ==
    [][(lifecycle.activate # "claimed" /\ lifecycle'.activate = "claimed") =>
          /\ DOMAIN caches' = {CACHE_NAME}
          /\ Cardinality(DOMAIN caches') = 1]_vars

\* C15 witness: the activate cycle found the buckets of two other versions
\* beside the current one and has completed.
C15_Witness ==
    /\ lifecycle.activate = "claimed"
    /\ lifecycle.cacheNames = OldCacheNames \cup {CACHE_NAME}
    /\ DOMAIN caches = {CACHE_NAME}

\* C16: in every state after activation has completed, whatever fetch events
\* follow, at most one bucket exists, and the handlers read and write the
\* bucket named CACHE_NAME only: no response comes from a bucket of another
\* version and every completed write is an entry of the current bucket.
C16_SingleBucketAfterActivation ==
    lifecycle.worker = "activated" =>
        /\ Cardinality(DOMAIN caches) <= 1
        /\ \A h \in Events :
              /\ result[h] # PreviousResponse
              /\ put[h].state = "stored" =>
                    /\ CACHE_NAME \in DOMAIN caches
                    /\ req[h].url \in DOMAIN caches[CACHE_NAME]

\* C16 witness: activation deleted buckets of other versions; since then one
\* handler has answered from the bucket without a fetch and one has completed
\* a write.
C16_Witness ==
    /\ lifecycle.worker = "activated"
    /\ lifecycle.cacheNames # {CACHE_NAME}
    /\ \E h \in Events : put[h].state = "stored"
    /\ \E h \in Events : pc[h] = "done" /\ net[h] = NoFetch /\ result[h].kind = "response"

\* C17: after an install step whose precache succeeded, every URL of the
\* manifest has an entry in the current bucket.
C17_ManifestPrecached ==
    lifecycle.install = "precached" =>
        /\ CACHE_NAME \in DOMAIN caches
        /\ \A f \in CACHE_FILES : Truthy(CacheMatch(caches, CACHE_NAME, Resolve(f)))

\* C17 witness: the install step has just succeeded on a Cache Storage that
\* had no bucket of this name.
C17_Witness ==
    /\ lifecycle.worker = "installing"
    /\ lifecycle.install = "precached"
    /\ \A f \in CACHE_FILES : CacheMatch(caches, CACHE_NAME, Resolve(f)).body = ToString(NumVersions)

\* C18: when the fetch of a manifest URL fails during install, the promise
\* given to waitUntil rejects and the install step fails: the worker is
\* neither installed nor activated.
C18_FailedPrecacheFailsInstall ==
    lifecycle.install = "failed" =>
        /\ lifecycle.waitUntil = "rejected"
        /\ lifecycle.worker \in {"installing", "redundant"}

\* C19: when the install of this version failed to populate its bucket, no
\* later lifecycle step of this version deletes or changes a bucket of a
\* previous version.
C19_FailedInstallKeepsPreviousBucket ==
    [][lifecycle.install = "failed" =>
          \A n \in (DOMAIN caches) \ {CACHE_NAME} :
              n \in DOMAIN caches' /\ caches'[n] = caches[n]]_vars

\* C20: the manifest contains the offline page and the home page, so after a
\* successful install the lookups of the failure path, cache.match(OFFLINE_PAGE)
\* and cache.match('/index.html'), each find an entry.
C20_FallbackTargetsPrecached ==
    lifecycle.install = "precached" =>
        /\ Truthy(CacheMatch(caches, CACHE_NAME, Resolve(OFFLINE_PAGE)))
        /\ Truthy(CacheMatch(caches, CACHE_NAME, Resolve(IndexHtml)))

\* C21: during install, skipWaiting is requested if and only if the bucket was
\* opened and every URL of the manifest was stored: never before the precache
\* has completed and never after a precache that failed.
C21_SkipWaitingIffPrecached ==
    /\ lifecycle.skipWaiting <=> lifecycle.install = "precached"
    /\ lifecycle.skipWaiting =>
          /\ CACHE_NAME \in DOMAIN caches
          /\ {Resolve(f) : f \in CACHE_FILES} \subseteq DOMAIN caches[CACHE_NAME]

\* C21 witness: the precache has completed on a bucket the install created
\* and skipWaiting was requested, the worker still installing.
C21_Witness ==
    /\ lifecycle.worker = "installing"
    /\ lifecycle.skipWaiting
    /\ DOMAIN caches[CACHE_NAME] = {Resolve(f) : f \in CACHE_FILES}
    /\ lifecycle.waitUntil = "fulfilled"

\* C22: during activate, clients.claim is called only after every deletion of
\* a stale bucket has completed: in the step that calls it no deletion is
\* pending and no bucket with a name other than CACHE_NAME exists; and an
\* activate that has completed has called it.
C22_ClaimAfterDeletions ==
    [][/\ (~lifecycle.claimed /\ lifecycle'.claimed) =>
             /\ lifecycle.deleting = {}
             /\ \A n \in lifecycle.cacheNames : n # CACHE_NAME => n \notin DOMAIN caches
             /\ DOMAIN caches \subseteq {CACHE_NAME}
       /\ lifecycle'.worker = "activated" => lifecycle'.claimed]_vars

\* C22 witness: the activate found two stale buckets, deleted them and claimed.
C22_Witness ==
    /\ lifecycle.claimed
    /\ OldCacheNames \subseteq lifecycle.cacheNames
    /\ lifecycle.deleting = {}
    /\ DOMAIN caches = {CACHE_NAME}

\* C23: after a successful install, a navigation request to a page URL of the
\* manifest (the root path or an .html page) that is answered while the
\* network is unavailable (its fetch has failed, or has not settled and the
\* answer does not wait for it) is answered with the entry the bucket holds
\* for that URL, a status-200 response, under whichever strategy the URL is
\* classified: no fallback and no synthesized response is used.
C23_OfflinePrecachedNavigation ==
    [][\A h \in Events :
        (/\ lifecycle.install = "precached"
         /\ req[h].mode = "navigate"
         /\ req[h].url \in {Resolve(f) : f \in ManifestPages}
         /\ Returns(h)
         /\ net'[h].state \in {"pending", "failed"}) =>
            /\ pc[h] # "fallback"
            /\ Truthy(Entry(h))
            /\ Entry(h).status = 200
            /\ result'[h] = Entry(h)]_vars

\* C23 witness: after a successful install the home document, under
\* network-first, and the root path, under stale-while-revalidate, were both
\* answered from the bucket, their fetches having failed.
C23_Witness ==
    \E h, g \in Events :
        /\ lifecycle.install = "precached"
        /\ req[h] = Request("GET", IndexUrl, "navigate")
        /\ IsStrategy(h, CACHE_STRATEGY.NETWORK_FIRST)
        /\ req[g] = Request("GET", RootUrl, "navigate")
        /\ IsStrategy(g, CACHE_STRATEGY.STALE_WHILE_REVALIDATE)
        /\ \A e \in {h, g} :
              /\ pc[e] = "done"
              /\ net[e].state = "failed"
              /\ result[e] = Entry(e)
              /\ result[e].status = 200

\* C24: in every strategy, when the network fetch succeeded with status 200 and
\* the bucket write fails, the answer is not affected: the step in which the
\* write fails changes neither the answer nor the handler's position nor the
\* bucket, and the answer of a handler whose write failed is the fetched
\* response (under stale-while-revalidate with an entry: the stale entry,
\* returned before), never the 408 response, the offline notice or nothing.
C24_FailedWriteKeepsResponse ==
    [][\A h \in Events :
        /\ (put[h].state = "pending" /\ put'[h].state = "failed") =>
              /\ net[h].resp.status = 200
              /\ result'[h] = result[h]
              /\ pc'[h] = pc[h]
              /\ caches' = caches
        /\ (put'[h].state = "failed" /\ pc'[h] = "done") =>
              /\ result'[h].kind = "response"
              /\ result'[h] \notin {NetworkError, OfflineNotice}
              /\ ~IsStrategy(h, CACHE_STRATEGY.STALE_WHILE_REVALIDATE) =>
                    result'[h] = net'[h].resp]_vars

\* C24 witness: a stale-while-revalidate handler and a handler of another
\* strategy have each answered with the fetched 200 response although the
\* write failed.
C24_Witness ==
    \E h \in Events :
        /\ put[h].state = "failed"
        /\ pc[h] = "done"
        /\ IsStrategy(h, CACHE_STRATEGY.STALE_WHILE_REVALIDATE)
        /\ result[h] = net[h].resp
        /\ result[h].status = 200
        /\ \E g \in Events :
              /\ put[g].state = "failed"
              /\ pc[g] = "done"
              /\ ~IsStrategy(g, CACHE_STRATEGY.STALE_WHILE_REVALIDATE)
              /\ result[g] = net[g].resp

\* C25: no handler of this version deletes the current bucket or removes an
\* entry from it: in every step the current bucket, once it exists, still
\* exists afterwards and every key that had an entry still has one, the same
\* or a status-200 response written for that key by a fetch handler or by the
\* precache of the install.
C25_EntriesNeverRemoved ==
    [][(CACHE_NAME \in DOMAIN caches) =>
          /\ CACHE_NAME \in DOMAIN caches'
          /\ \A k \in DOMAIN caches[CACHE_NAME] :
                /\ k \in DOMAIN caches'[CACHE_NAME]
                /\ (\/ caches'[CACHE_NAME][k] = caches[CACHE_NAME][k]
                    \/ (/\ caches'[CACHE_NAME][k].status = 200
                        /\ \/ \E h \in Events : req[h].url = k /\ put[h].state = "pending"
                           \/ lifecycle.install = "addAll"))]_vars

\* C25 witness: the activate step has deleted the buckets of other versions,
\* a handler has overwritten one precached entry, and the bucket still holds
\* every key of the manifest.
C25_Witness ==
    /\ lifecycle.worker = "activated"
    /\ OldCacheNames \subseteq lifecycle.cacheNames
    /\ lifecycle.install = "precached"
    /\ {Resolve(f) : f \in CACHE_FILES} \subseteq DOMAIN caches[CACHE_NAME]
    /\ \E h \in Events :
          /\ put[h].state = "stored"
          /\ caches[CACHE_NAME][req[h].url] = put[h].resp
          /\ \E k \in DOMAIN caches[CACHE_NAME] : caches[CACHE_NAME][k] # put[h].resp

\* The target the specification gives a payload: its url, or '/' when it has
\* none (no url field, or an empty one).
C26_Target(data) == IF data.url.kind = "string" /\ data.url.str # "" THEN data.url ELSE Str("/")

\* C26: a push event with a payload shows one notification with the payload's
\* title and body whose stored target is the payload's url, or '/' when the
\* payload has no url; a push event without data shows none; a click on a
\* notification closes it and opens one window, at the stored target.
C26_PushShowsAndClickOpens ==
    [][/\ pushed' # pushed =>
             LET data == pushed'[Len(pushed')] IN
             /\ windows' = windows
             /\ IF data.present
                THEN /\ Len(notifications') = Len(notifications) + 1
                     /\ SubSeq(notifications', 1, Len(notifications)) = notifications
                     /\ LET shown == notifications'[Len(notifications')] IN
                        /\ shown.title = data.title
                        /\ shown.body = data.body
                        /\ shown.data.url = C26_Target(data)
                        /\ shown.open
                ELSE notifications' = notifications
       /\ \A i \in 1..Len(notifications) :
             (notifications[i].open /\ ~notifications'[i].open) =>
                 /\ windows' = Append(windows, notifications[i].data.url)
                 /\ \A j \in 1..Len(notifications) : j # i => notifications'[j] = notifications[j]
       /\ windows' # windows =>
             \E i \in 1..Len(notifications) : notifications[i].open /\ ~notifications'[i].open]_vars

\* C26 witness: a payload without a url and a payload with one were pushed;
\* both notifications were clicked, the second first: they are closed and the
\* two windows are at '/gallery.html' and at '/'.
C26_Witness ==
    /\ Len(pushed) = 2
    /\ pushed[1].present /\ pushed[1].url = NoValue
    /\ pushed[2].present /\ pushed[2].url = Str("/gallery.html")
    /\ Len(notifications) = 2
    /\ \A i \in 1..2 : ~notifications[i].open
    /\ windows = <<Str("/gallery.html"), Str("/")>>

\* C27: under CACHE_FIRST and under NETWORK_FIRST, a non-navigation request
\* whose network fetch fails and for which the bucket holds no entry is
\* answered with the synthesized response of status 408, Content-Type
\* text/plain and body 'Network error', and the bucket is left unchanged.
C27_NonNavigationFailure408 ==
    [][\A h \in Events :
        (/\ IsStrategy(h, CACHE_STRATEGY.CACHE_FIRST) \/ IsStrategy(h, CACHE_STRATEGY.NETWORK_FIRST)
         /\ req[h].mode # "navigate"
         /\ Returns(h)
         /\ net'[h].state = "failed"
         /\ ~Truthy(Entry(h))) =>
            /\ result'[h] = Response(408, "text/plain", "Network error")
            /\ caches' = caches
            /\ put'[h] = NoPut]_vars

\* C27 witness: a cache-first stylesheet request and a network-first document
\* request, neither a navigation, were both answered with the 408 response.
C27_Witness ==
    \E h, g \in Events :
        /\ IsStrategy(h, CACHE_STRATEGY.CACHE_FIRST)
        /\ IsStrategy(g, CACHE_STRATEGY.NETWORK_FIRST)
        /\ \A e \in {h, g} :
              /\ req[e].mode # "navigate"
              /\ pc[e] = "done"
              /\ net[e].state = "failed"
              /\ result[e].status = 408
              /\ result[e].ctype = "text/plain"
              /\ result[e].body = "Network error"
              /\ ~Truthy(Entry(e))

\* C28: Utils.getCachedElement is an LRU cache bounded by _maxCacheSize: the
\* cache never holds more than _maxCacheSize selectors, and when a selector is
\* inserted into a full cache the selector evicted is the least recently used
\* one, a lookup that hits the cache counting as a use.
C28_LeastRecentlyUsedEvicted ==
    [][/\ Len(cachedElements') <= _maxCacheSize
       /\ \A k \in Keys(cachedElements) :
             k \notin Keys(cachedElements') =>
                 /\ Len(cachedElements) = _maxCacheSize
                 /\ k = lastUsed[1]]_vars

\* C29: every entry a fetch handler writes into the current bucket is a
\* response the network gave with status exactly 200, stored under the URL of
\* the request whose fetch produced it.  A step that adds an entry to the
\* bucket or changes one is the completion of a handler's cache.put, for the
\* handler's own request and the response its fetch resolved to; and a
\* handler holds a write only for the 200 response of its own fetch.
C29_WrittenEntriesAreOwn200Responses ==
    [][/\ \A h \in Events :
             put'[h].state # "none" =>
                 /\ net'[h].state = "resolved"
                 /\ put'[h].resp = net'[h].resp
                 /\ put'[h].resp \in ServerResponses
                 /\ put'[h].resp.status = 200
       /\ (CACHE_NAME \in DOMAIN caches') =>
             \A k \in DOMAIN caches'[CACHE_NAME] :
                 (\/ CACHE_NAME \notin DOMAIN caches
                  \/ CacheMatch(caches, CACHE_NAME, k) # caches'[CACHE_NAME][k]) =>
                     \E h \in Events :
                         /\ put[h].state = "pending"
                         /\ put'[h].state = "stored"
                         /\ req[h].url = k
                         /\ caches'[CACHE_NAME][k] = net[h].resp
                         /\ caches'[CACHE_NAME][k].status = 200]_vars

\* C29 witness: a handler's write has completed, the entry under its
\* request's URL is the 200 response its fetch resolved to, the request is not
\* for the home document, and another handler fetched a response that is not
\* 200 and holds no write.
C29_Witness ==
    \E h \in Events :
        /\ put[h].state = "stored"
        /\ req[h].url # IndexUrl
        /\ Entry(h) = net[h].resp
        /\ Entry(h).status = 200
        /\ \E g \in Events :
              /\ net[g].state = "resolved"
              /\ net[g].resp.status # 200
              /\ put[g] = NoPut

\* C30: network-first looks into the bucket only when the fetch fails.  When
\* the fetch resolves to a response whose status is not 200, the handler
\* returns that response as the network gave it: no write is started, the
\* bucket and the cached copy of the request stay as they are, the cached copy
\* is not the answer in its place, and no navigation fallback is served.
C30_NetworkFirstReturnsNon200 ==
    [][\A h \in Events :
        (/\ IsStrategy(h, CACHE_STRATEGY.NETWORK_FIRST)
         /\ pc[h] = "nf_fetch"
         /\ net'[h].state = "resolved"
         /\ net'[h].resp.status # 200) =>
            /\ pc'[h] = "done"
            /\ result'[h] = net'[h].resp
            /\ result'[h] \in ServerResponses
            /\ result'[h] # OfflineNotice
            /\ put'[h] = NoPut
            /\ caches' = caches]_vars

\* C30 witness: a network-first handler of a navigation request has answered
\* with the 404 response of the network while the bucket holds a 200 copy of
\* the page, and it started no write.
C30_Witness ==
    \E h \in Events :
        /\ IsStrategy(h, CACHE_STRATEGY.NETWORK_FIRST)
        /\ pc[h] = "done"
        /\ req[h].mode = "navigate"
        /\ net[h].state = "resolved"
        /\ result[h] = net[h].resp
        /\ result[h].status = 404
        /\ Truthy(Entry(h))
        /\ Entry(h).status = 200
        /\ put[h] = NoPut

\* Two handlers of the network-first or stale-while-revalidate strategy for
\* one URL whose fetches resolved to different 200 responses, whose writes
\* have both completed, no third handler having fetched that URL.
C31_BothWritten(h, g) ==
    /\ h # g
    /\ req[h].url = req[g].url
    /\ \A e \in {h, g} :
          /\ strategy[e] \in {CACHE_STRATEGY.NETWORK_FIRST, CACHE_STRATEGY.STALE_WHILE_REVALIDATE}
          /\ pc[e] = "done"
          /\ net[e].state = "resolved"
          /\ net[e].resp.status = 200
          /\ put[e].state = "stored"
    /\ net[h].resp # net[g].resp
    /\ \A f \in Events \ {h, g} : net[f].state = "none" \/ req[f].url # req[h].url

\* C31 as stated: when concurrent handlers for one URL received different 200
\* responses, then once they and their writes have completed the entry of the
\* URL is the response of the fetch that completed last, the one of the
\* higher version.
C31_FreshestFetchWins ==
    \A h, g \in Events :
        (C31_BothWritten(h, g) /\ Version(net[g].resp) > Version(net[h].resp))
            => Entry(g) = net[g].resp

\* C31, amended: the last write wins.  The step in which a handler's write
\* completes makes the response of that handler's fetch the entry of its URL,
\* whatever entry was there and whichever fetch resolved last; so once the
\* concurrent handlers for one URL and their writes have completed, the entry
\* is the response of one of them, the one whose write completed last.
C31_LastWriteWins ==
    [][/\ \A h \in Events :
             (put[h].state = "pending" /\ put'[h].state = "stored") =>
                 CacheMatch(caches', CACHE_NAME, req[h].url) = net[h].resp
       /\ \A h, g \in Events :
             C31_BothWritten(h, g)' =>
                 CacheMatch(caches', CACHE_NAME, req[h].url) \in {net'[h].resp, net'[g].resp}]_vars

\* C31 witness: two concurrent handlers for one URL received different 200
\* responses, both writes have completed, and the entry is the response of
\* the fetch that completed first.
C31_Witness ==
    \E h, g \in Events :
        /\ C31_BothWritten(h, g)
        /\ Version(net[g].resp) > Version(net[h].resp)
        /\ Entry(h) = net[h].resp

\* How far the handler of a fetch event has come.
C32_Rank(p) ==
    CASE p = "idle" -> 0
      [] p = "open" -> 1
      [] p \in {"cf_match", "nf_fetch", "swr_match"} -> 2
      [] p \in {"cf_fetch", "nf_match", "swr_wait"} -> 3
      [] p = "fallback" -> 4
      [] OTHER -> 5

\* C32: when every bucket operation and every network fetch settles, every
\* intercepted request is eventually answered: the promise its handler gave
\* to respondWith settles.  Each fetch event starts at most one network fetch
\* and at most one bucket write, and a handler only moves forward: it never
\* returns to a position it has left.
C32_EveryRequestAnswered ==
    /\ [][\A h \in Events :
            /\ (net'[h].state = "pending" /\ net[h].state # "pending") => net[h].state = "none"
            /\ (put'[h].state = "pending" /\ put[h].state # "pending") => put[h].state = "none"
            /\ net[h].state \in {"resolved", "failed"} => net'[h] = net[h]
            /\ put[h].state \in {"stored", "failed"} => put'[h] = put[h]
            /\ pc'[h] # pc[h] => C32_Rank(pc'[h]) > C32_Rank(pc[h])]_vars
    /\ \A h \in Events : (pc[h] = "open") ~> (pc[h] = "done")

\* C32 witness: every handler has answered, one of them after its fetch
\* failed and with its navigation fallback, another with a completed write.
C32_Witness ==
    /\ \A h \in Events : pc[h] = "done"
    /\ \E h \in Events :
          /\ net[h].state = "failed"
          /\ req[h].mode = "navigate"
          /\ result[h] = Settle(NavigationFallback, caches)
    /\ \E g \in Events : put[g].state = "stored"

\* C36: after any sequence of handleFileChange, removeFile and clearAllFiles
\* calls uploadedFiles holds at most 10 files, each non-empty and at most
\* 25MB, of at most 90MB in total, each of an accepted type, and no two of
\* them with the same name and size; a handleFileChange batch that would bring
\* the count above 10 adds no file, and removeFile with an index out of range
\* leaves the list unchanged.
C36_UploadedFilesWithinLimits ==
    [][LET files == page.contactForm.uploadedFiles
           after == page'.contactForm.uploadedFiles
       IN /\ Len(after) <= maxTotalFiles
          /\ \A i \in 1..Len(after) :
                /\ after[i].size > 0
                /\ after[i].size <= maxFileSize
                /\ after[i].type \in validImageTypes \cup {validPDFType}
          /\ FoldSizes(after, Len(after)) <= maxTotalSize
          /\ \A i, j \in 1..Len(after) :
                (after[i].name = after[j].name /\ after[i].size = after[j].size) => i = j
          /\ \A newFiles \in Batches(files), allowsPDF \in BOOLEAN :
                (FileChange(newFiles, allowsPDF) /\ Len(files) + Len(newFiles) > maxTotalFiles)
                    => after = files
          /\ \A index \in {-1, Len(files)} : RemoveFile(index) => after = files]_vars

\* The retry timers that have not run yet.
C33_RetryTimers(p) == Cardinality({i \in 1..Len(p.timers) : p.timers[i].callback = "retry"})

\* C33: at most one submission of the contact form is in flight at any time.
\* While isSubmitting or _submissionLock is true, a further call of submitForm
\* by a submit event starts no request and leaves the lock, _submissionId,
\* _lastSubmissionTime and _submissionAttempts as they are; the callback of a
\* retry timer that runs meanwhile does not call submitForm and changes none
\* of them either; and a submission is in flight only under the lock.
C33_OneSubmissionInFlight ==
    [][LET form == page.contactForm
           after == page'.contactForm
       IN /\ Len(page'.submissions) <= 1
          /\ Len(page'.submissions) = 1 => after.isSubmitting /\ after._submissionLock
          /\ ( /\ form.isSubmitting \/ form._submissionLock
               /\ \/ page'.clicks = page.clicks + 1
                  \/ C33_RetryTimers(page') < C33_RetryTimers(page) ) =>
                /\ page'.submissions = page.submissions
                /\ after.isSubmitting = form.isSubmitting
                /\ after._submissionLock = form._submissionLock
                /\ after._submissionId = form._submissionId
                /\ after._lastSubmissionTime = form._lastSubmissionTime
                /\ after._submissionAttempts = form._submissionAttempts]_vars

\* C33 witness: the user has submitted twice with time enough between, one
\* submission is in flight under the lock, and it is the only attempt counted.
C33_Witness ==
    /\ page.clicks = 2
    /\ Len(page.submissions) = 1
    /\ page.submissions[1].at = "fetch"
    /\ page.contactForm._submissionLock
    /\ page.contactForm.isSubmitting
    /\ page.contactForm._submissionAttempts = 1
    /\ page.contactForm._submissionId = page.submissions[1].submissionId

\* C34: whenever no invocation of submitForm is suspended at an await (each
\* one that acquired the lock has returned or thrown, and none has a request
\* in flight), isSubmitting and _submissionLock are both false.
C34_LockReleasedOnEveryExit ==
    Len(page.submissions) = 0 =>
        /\ ~page.contactForm.isSubmitting
        /\ ~page.contactForm._submissionLock

\* A step that starts a request: a submission is suspended at its fetch, or
\* a suspended one resubmits without files.
C35_RequestStarted ==
    \/ Len(page'.submissions) > Len(page.submissions)
    \/ \E i \in 1..Len(page.submissions) :
          /\ i <= Len(page'.submissions)
          /\ page.submissions[i].at # "refetch"
          /\ page'.submissions[i].at = "refetch"
C35_CountersBounded ==
    /\ page'.contactForm._submissionAttempts <= _maxSubmissionAttempts
    /\ page'.contactForm._retryCount <= _maxRetries
    /\ C33_RetryTimers(page') > C33_RetryTimers(page) =>
          /\ page.contactForm._retryCount < _maxRetries
          /\ page'.contactForm._retryCount = page.contactForm._retryCount + 1

\* C35 as stated: _submissionAttempts never exceeds 5 and _retryCount never
\* exceeds 2; once _submissionAttempts has reached 5 no request is started
\* until the counter is reset; a retry is scheduled only when _retryCount was
\* below 2.
C35_NoRequestAtFiveAttempts ==
    [][/\ C35_CountersBounded
       /\ C35_RequestStarted =>
             page.contactForm._submissionAttempts < _maxSubmissionAttempts]_vars

\* C35, amended: _submissionAttempts never exceeds 5 and _retryCount never
\* exceeds 2; once _submissionAttempts has reached 5 no call of submitForm
\* starts a submission until the counter is reset, while the submission that
\* raised the counter to 5 still sends its request and, when the server
\* refuses its files, its resubmission without files; a retry is scheduled
\* only when _retryCount was below 2.
C35_NoSubmissionAtFiveAttempts ==
    [][/\ C35_CountersBounded
       /\ Len(page'.submissions) > Len(page.submissions) =>
             /\ page.contactForm._submissionAttempts < _maxSubmissionAttempts
             /\ page'.contactForm._submissionAttempts = page.contactForm._submissionAttempts + 1]_vars

\* C35 witness: five attempts are counted and two retries were scheduled; a
\* call of submitForm was then refused for the count of attempts and set
\* the timer that resets it; no submission is in flight and the form is not
\* locked.
C35_Witness ==
    /\ page.contactForm._submissionAttempts = _maxSubmissionAttempts
    /\ page.contactForm._retryCount = _maxRetries
    /\ ~page.contactForm._submissionLock
    /\ Len(page.submissions) = 0
    /\ \E i \in 1..Len(page.timers) : page.timers[i].callback = "reset"
====
